---------------------------- MODULE Spec2Model ----------------------------
(***************************************************************************)
(* Scale Auto-Tune: the chunk planner of the main thread (main.js lines    *)
(* 1-556 and its two earlier revisions under src/unnamed) and the worker   *)
(* (main.js lines 558-889).                                                *)
(*                                                                         *)
(* Number representation.  TLC has integers only, so every JavaScript      *)
(* double of the program is kept in a stated unit:                         *)
(*   - a MIDI value ("midiFloat") is an integer count of 1/MidiUnit        *)
(*     semitones; an integer MIDI note n is the plain integer n;           *)
(*   - a frequency is a fraction [num, den] of integers, in Hz;            *)
(*   - a confidence is a fraction [num, den];                              *)
(*   - a sample is an integer count of 1/AmpScale of full scale.           *)
(* JavaScript's % keeps the sign of the dividend (JsRem); Math.round       *)
(* rounds halves upward (JsRound).                                         *)
(***************************************************************************)
EXTENDS Integers, Sequences, FiniteSets, TLC

VARIABLES
    \* --- quantizer harness (nearestMidiInMajorScale / nearestInScale) ---
    qMidi,      \* the target MIDI value, in 1/MidiUnit semitones
    qRoot,      \* the root MIDI note
    qPlan,      \* <<>> or <<result of nearestMidiInMajorScale(qMidi, qRoot)>>
    qWorker,    \* <<>> or <<result of nearestInScale(qMidi, scale of qRoot)>>
    \* --- key inferrer harness (pickRootMidi) ---
    rPitches,   \* the f0 of each frame so far, fractions in Hz
    rConfs,     \* the confidence of each frame so far, fractions
    rRoot,      \* <<>> or <<result of pickRootMidi(rPitches, rConfs)>>
    \* --- chunk planner harness (buildChunkPitchPlan) ---
    pMono,      \* the recorded samples, in 1/AmpScale of full scale
    pSr,        \* the sample rate of the recording
    pSettings,  \* the settings record of getSettings
    pPlan,      \* <<>> or <<result of buildChunkPitchPlan(pMono, pSr, pSettings)>>
    pAnalysis,  \* <<>> or <<result of analyzeMonophonicPitch(pMono, pSr, pSettings)>>
    \* --- worker: its globals ---
    SR,         \* sample rate
    CHUNK_MS,   \* frame length in ms
    OVERLAP_MS, \* crossfade overlap in ms
    rb,         \* <<>> (null) or <<the rubberband instance>>
    rbReady,    \* BOOLEAN
    \* --- worker: messages and control ---
    inbox,      \* messages posted to the worker and not yet handled
    outbox,     \* replies posted by the worker and not yet taken by the page
    creating,   \* the init requests waiting in "await api.create(...)"
    phase,      \* "idle", or "frames" inside processAudio
    run,        \* the locals of the latest processAudio call; req 0 before it
    \* --- worker: environment and history ---
    rate,       \* the sample rate of the page's audio context
    sent,       \* number of messages the page has posted
    posted,     \* type and request of every reply posted so far
    threw,      \* the requests during which rb.pitchShift threw
    \* --- page of src/unnamed/part_001 driving the worker ---
    workerReady,        \* BOOLEAN: a 'ready' reply has been received
    btnProcessDisabled, \* BOOLEAN: ui.btnProcess.disabled
    controls,   \* what getSettings returns now: [chunkMs, xfadeMs]
    rawBuffer,  \* the recording, samples in 1/AmpScale of full scale
    polling,    \* the calls waiting for workerReady: {[call, settings]},
                \* with the history field over: the calls waiting before it
    clicks,     \* number of clicks on the process button so far
    asked,      \* history: the settings of the call that sent each request
    \* --- helpers of the worker, called on their own ---
    hCall,      \* "none", or the helper that was called
    hX,         \* the buffer passed to the helper, as it was before the call
    hStart,     \* the argument start of slicePadded
    hLen,       \* the argument len of slicePadded
    hOut,       \* what slicePadded returned
    hAfter,     \* the buffer passed to slicePadded, as it is after the call
    hAcc,       \* the accumulated values passed to softClipInPlace
    hClipped,   \* the same buffer after the call of softClipInPlace
    hSr,        \* the argument sr of detectPitch
    hEst,       \* <<>> or <<what detectPitch(hX, hSr) returned>>
    \* --- page of src/main.js (lines 1-556) and the worker it talks to ---
    mic,        \* "idle", "asking" (await getUserMedia), "recording",
                \* "stopping" (await audioCtx.close)
    take,       \* number of recordings started so far
    mainRawBuffer,   \* rawBuffer: 0 (null) or the number of the recording
    processedBuffer, \* 0 (null) or the number of the recording it was made of
    worker,     \* BOOLEAN: the page has created its worker
    pendingProcess,  \* BOOLEAN
    disabled,   \* the property disabled of each of the four buttons
    toWorker,   \* 'process' requests posted and not yet handled by the worker
    toPage,     \* replies and error events of the worker not yet handled
    playing,    \* what the last click on the play button started
    lastClick,  \* history: what the last call of processRecording did
    sincePost   \* history: the events since the last 'process' post that
                \* set pendingProcess to false

quantVars == <<qMidi, qRoot, qPlan, qWorker>>
rootVars == <<rPitches, rConfs, rRoot>>
planVars == <<pMono, pSr, pSettings, pPlan, pAnalysis>>

workerVars == <<SR, CHUNK_MS, OVERLAP_MS, rb, rbReady, inbox, outbox, creating,
                phase, run, rate, sent, posted, threw>>

pageVars == <<workerReady, btnProcessDisabled, controls, rawBuffer, polling,
              clicks, asked>>

\* the call of a helper of the worker
frameVars == <<hCall, hX, hStart, hLen, hOut, hAfter, hAcc, hClipped, hSr,
               hEst>>

\* the page of main.js
mainVars == <<mic, take, mainRawBuffer, processedBuffer, worker,
              pendingProcess, disabled, toWorker, toPage, playing, lastClick,
              sincePost>>

vars == <<quantVars, rootVars, planVars, workerVars, pageVars, frameVars,
         mainVars>>

---------------------------------------------------------------------------
(* Bounds of the model *)

\* MIDI targets range over MidiLow .. MidiHigh semitones (hzToMidi of the
\* frequencies the settings admit, 40 Hz .. 1200 Hz, is 27.5 .. 86.4)
MidiLow == 27
MidiHigh == 87
\* root notes range over 0 .. MaxRoot
MaxRoot == 12
\* pickRootMidi is given at most MaxEstimates estimates
MaxEstimates == 3
\* a recording is at most MaxBlocks blocks of BlockLen samples
MaxBlocks == 4
\* the page posts at most MaxMessages messages to the worker
MaxMessages == 2
\* a recording at the low sample rate is at most MaxInputLen samples
MaxInputLen == 3
\* the process button of the page is clicked at most MaxClicks times
MaxClicks == 2

---------------------------------------------------------------------------
(* JavaScript arithmetic *)

\* resolution of a MIDI value: units per semitone
MidiUnit == 4

Abs(x) == IF x < 0 THEN -x ELSE x

\* n % m of JavaScript, m > 0: the remainder has the sign of n
JsRem(n, m) == IF n >= 0 THEN n % m ELSE -((-n) % m)

\* Math.round of a MIDI value: floor(x + 0.5), the result in semitones
JsRound(midiFloat) == (2 * midiFloat + MidiUnit) \div (2 * MidiUnit)

\* function mod(n, m) { return ((n % m) + m) % m; }
mod(n, m) == JsRem(JsRem(n, m) + m, m)

\* fractions: [num, den] with den > 0
Frac(n, d) == [num |-> n, den |-> d]
FracGe(a, b) == a.num * b.den >= b.num * a.den
FracGt(a, b) == a.num * b.den > b.num * a.den
Zero == Frac(0, 1)

\* the lowest MIDI note of the table below
TableLowMidi == 27

\* 440 * 2^((j / MidiUnit - 69) / 12) in mHz, rounded up, for
\* j = TableLowMidi * MidiUnit, ... : the least frequency whose hzToMidi,
\* cut to 1/MidiUnit semitones, is j (38.891 Hz .. 1318.511 Hz)
MidiThresholdsMilliHz ==
    <<
       38891, 39457, 40031, 40613, 41204, 41803, 42411, 43028,
       43654, 44289, 44933, 45587, 46250, 46923, 47605, 48297,
       49000, 49713, 50436, 51169, 51914, 52669, 53435, 54212,
       55000, 55800, 56612, 57436, 58271, 59119, 59978, 60851,
       61736, 62634, 63545, 64469, 65407, 66358, 67323, 68303,
       69296, 70304, 71327, 72364, 73417, 74485, 75568, 76667,
       77782, 78914, 80061, 81226, 82407, 83606, 84822, 86056,
       87308, 88577, 89866, 91173, 92499, 93845, 95210, 96594,
       97999, 99425, 100871, 102338, 103827, 105337, 106869, 108423,
       110000, 111600, 113224, 114871, 116541, 118237, 119956, 121701,
       123471, 125267, 127089, 128938, 130813, 132716, 134646, 136605,
       138592, 140608, 142653, 144728, 146833, 148969, 151135, 153334,
       155564, 157827, 160122, 162451, 164814, 167212, 169644, 172111,
       174615, 177154, 179731, 182345, 184998, 187689, 190419, 193188,
       195998, 198849, 201741, 204676, 207653, 210673, 213738, 216846,
       220000, 223200, 226447, 229741, 233082, 236473, 239912, 243402,
       246942, 250534, 254178, 257875, 261626, 265431, 269292, 273209,
       277183, 281215, 285305, 289455, 293665, 297937, 302270, 306667,
       311127, 315653, 320244, 324902, 329628, 334423, 339287, 344222,
       349229, 354308, 359462, 364690, 369995, 375377, 380837, 386376,
       391996, 397698, 403482, 409351, 415305, 421346, 427475, 433692,
       440000, 446400, 452893, 459481, 466164, 472945, 479824, 486803,
       493884, 501067, 508356, 515750, 523252, 530862, 538584, 546418,
       554366, 562429, 570610, 578910, 587330, 595873, 604540, 613333,
       622254, 631305, 640488, 649804, 659256, 668845, 678573, 688443,
       698457, 708616, 718923, 729380, 739989, 750753, 761673, 772751,
       783991, 795395, 806964, 818702, 830610, 842691, 854949, 867384,
       880000, 892800, 905786, 918961, 932328, 945889, 959647, 973606,
       987767, 1002134, 1016711, 1031499, 1046503, 1061724, 1077168, 1092835,
       1108731, 1124858, 1141219, 1157819, 1174660, 1191745, 1209080, 1226666,
       1244508, 1262610, 1280975, 1299608, 1318511
    >>

\* function hzToMidi(hz) { return 69 + 12 * Math.log2(hz / 440); }
\* in 1/MidiUnit semitones, rounded down (which keeps Math.round of it
\* exact); for hz in 38.9 Hz .. 1318.5 Hz
hzToMidi(hz) ==
    TableLowMidi * MidiUnit - 1
    + Cardinality({i \in 1 .. Len(MidiThresholdsMilliHz) :
                      MidiThresholdsMilliHz[i] * hz.den <= hz.num * 1000})

\* null / undefined is <<>>, a present value v is <<v>>
Null == <<>>
Some(v) == <<v>>

\* sum of f[1] .. f[n]
RECURSIVE SumTo(_, _)
SumTo(f, n) == IF n <= 0 THEN 0 ELSE f[n] + SumTo(f, n - 1)

RECURSIVE Pow10(_)
Pow10(k) == IF k <= 0 THEN 1 ELSE 10 * Pow10(k - 1)

---------------------------------------------------------------------------
(* DSP utils and pitch detection of the main thread *)

\* units of a sample per full scale
AmpScale == 10

SumSq(x) == SumTo([i \in 1 .. Len(x) |-> x[i] * x[i]], Len(x))

\* calcRms(x) squared: s / x.length
calcRmsSq(x) == Frac(SumSq(x), Len(x) * AmpScale * AmpScale)

\* dbToLin(db) squared: 10^(db / 10), for db a multiple of 10, db <= 0
dbToLinSq(db) == Frac(1, Pow10((-db) \div 10))

\* "calcRms(slice) < gateLin", both sides squared
BelowGate(slice, gateDb) == FracGt(dbToLinSq(gateDb), calcRmsSq(slice))

\* the inner loop of estimateF0_AMDF: the sum over i < n of
\* |(x[i] - mean) - (x[i + lag] - mean)|, in which the mean cancels
AmdfSum(x, lag) ==
    LET n == Len(x) - lag
    IN  SumTo([i \in 1 .. n |-> Abs(x[i] - x[i + lag])], n)

\* the lag loop of estimateF0_AMDF from lag on; bestScore is Infinity or
\* the fraction sum / n.  n = 0 gives NaN, which compares false; n < 0
\* gives -0.
RECURSIVE AmdfLoop(_, _, _, _, _)
AmdfLoop(x, lag, maxLag, bestLag, bestScore) ==
    IF lag > maxLag THEN [lag |-> bestLag, score |-> bestScore]
    ELSE LET n     == Len(x) - lag
             score == IF n > 0 THEN Frac(AmdfSum(x, lag), n) ELSE Frac(0, 1)
             less  == /\ n # 0
                      /\ \/ bestScore.inf
                         \/ score.num * bestScore.v.den < bestScore.v.num * score.den
         IN  IF less
             THEN AmdfLoop(x, lag + 1, maxLag, lag, [inf |-> FALSE, v |-> score])
             ELSE AmdfLoop(x, lag + 1, maxLag, bestLag, bestScore)

\* function estimateF0_AMDF(frame, sr, minLag, maxLag): Null or Some(sr / bestLag).
\* "rms < 1e-6" holds of integer samples only when all are 0, the least
\* other rms being (1 / AmpScale) / sqrt(frame.length); "bestScore > rms * 2"
\* is compared squared: (sum / n)^2 > 4 * s / frame.length.
estimateF0_AMDF(frame, sr, minLag, maxLag) ==
    LET r  == AmdfLoop(frame, minLag, maxLag, -1, [inf |-> TRUE, v |-> Zero])
        sc == r.score.v
    IN  IF r.lag <= 0 THEN Null
        ELSE IF SumSq(frame) = 0 THEN Null
        ELSE IF sc.num * sc.num * Len(frame) > 4 * SumSq(frame) * sc.den * sc.den
             THEN Null
        ELSE Some(Frac(sr, r.lag))

\* function nearestMidi(m) { return Math.round(m); }
nearestMidi(m) == JsRound(m)

---------------------------------------------------------------------------
(* Scale logic of the main thread *)

\* the step set with its fourth degree mistyped
MistypedSteps == {0, 2, 4, 6, 7, 9, 11}

\* const MAJOR_SCALE_STEPS = new Set([0,2,4,5,7,9,11]); // relative to root
MAJOR_SCALE_STEPS == {0, 2, 4, 5, 7, 9, 11}

isInMajorScale(midiInt, rootPc) ==
    LET pc  == JsRem(JsRem(midiInt, 12) + 12, 12)
        rel == JsRem(pc - rootPc + 12, 12)
    IN  rel \in MAJOR_SCALE_STEPS

\* the loop "for (let d = 0; d <= 12; d++)" from distance d on
RECURSIVE SearchOutward(_, _, _)
SearchOutward(center, rootPc, d) ==
    IF d > 12 THEN center
    ELSE IF isInMajorScale(center + d, rootPc) THEN center + d
    ELSE IF isInMajorScale(center - d, rootPc) THEN center - d
    ELSE SearchOutward(center, rootPc, d + 1)

nearestMidiInMajorScale(midiFloat, rootMidiInt) ==
    LET rootPc == JsRem(JsRem(rootMidiInt, 12) + 12, 12)
        center == JsRound(midiFloat)
    IN  SearchOutward(center, rootPc, 0)

---------------------------------------------------------------------------
(* Chunk planner of the main thread *)

\* Math.floor(sr * (ms / 1000))
MsToSamples(sr, ms) == (sr * ms) \div 1000

\* the first loop of buildChunkPitchPlan from sample offset i on: the key root
RECURSIVE FindKeyRoot(_, _, _, _, _, _)
FindKeyRoot(mono, sr, settings, chunkSize, hop, i) ==
    IF i + chunkSize > Len(mono) THEN Null
    ELSE LET slice  == SubSeq(mono, i + 1, i + chunkSize)
             minLag == sr \div settings.maxF0
             maxLag == sr \div settings.minF0
             hz     == estimateF0_AMDF(slice, sr, minLag, maxLag)
         IN  IF BelowGate(slice, settings.gateDb)
             THEN FindKeyRoot(mono, sr, settings, chunkSize, hop, i + hop)
             ELSE IF hz = Null
             THEN FindKeyRoot(mono, sr, settings, chunkSize, hop, i + hop)
             ELSE Some(nearestMidi(hzToMidi(hz[1])))

\* a test that takes every frequency for in range
AnyHzInRange(hz, settings) == TRUE

\* "if (hz < settings.minF0 || hz > settings.maxF0) continue;", negated
HzInRange(hz, settings) ==
    /\ FracGe(hz, Frac(settings.minF0, 1))
    /\ FracGe(Frac(settings.maxF0, 1), hz)

\* the loop of analyzeMonophonicPitch from sample offset i on; acc holds
\* totalChunks, voicedCount and firstHz so far.  "!hz || !isFinite(hz)" is
\* hz = Null here: estimateF0_AMDF returns null or a finite sr / bestLag.
RECURSIVE AnalyzeFrom(_, _, _, _, _, _, _)
AnalyzeFrom(mono, sr, settings, chunkSize, hop, i, acc) ==
    IF i + chunkSize > Len(mono) THEN acc
    ELSE LET slice   == SubSeq(mono, i + 1, i + chunkSize)
             minLag  == sr \div settings.maxF0
             maxLag  == sr \div settings.minF0
             hz      == estimateF0_AMDF(slice, sr, minLag, maxLag)
             counted == [acc EXCEPT !.totalChunks = acc.totalChunks + 1]
             skip    == \/ BelowGate(slice, settings.gateDb)
                        \/ hz = Null
                        \/ ~HzInRange(hz[1], settings)
         IN  AnalyzeFrom(mono, sr, settings, chunkSize, hop, i + hop,
                         IF skip THEN counted
                         ELSE [counted EXCEPT
                                  !.voicedCount = acc.voicedCount + 1,
                                  !.firstHz = IF acc.firstHz = Null THEN hz
                                              ELSE acc.firstHz])

\* function analyzeMonophonicPitch(mono, sr, settings), for chunkSize >= 1;
\* the names and the preview are left out
analyzeMonophonicPitch(mono, sr, settings) ==
    LET chunkSize == MsToSamples(sr, settings.chunkMs)
        hop       == chunkSize
        r         == AnalyzeFrom(mono, sr, settings, chunkSize, hop, 0,
                                 [totalChunks |-> 0, voicedCount |-> 0,
                                  firstHz |-> Null])
    IN  [totalChunks |-> r.totalChunks,
         voicedCount |-> r.voicedCount,
         firstHz     |-> r.firstHz,
         keyRootMidi |-> IF r.firstHz = Null THEN Null
                         ELSE Some(nearestMidi(hzToMidi(r.firstHz[1])))]

\* the same with the "else { hz = null; }" left out
KeptHzNoReset(hz, settings) == hz

\* "if (hz && hz >= settings.minF0 && hz <= settings.maxF0) {...} else { hz = null; }":
\* the value hz has afterwards
KeptHz(hz, settings) ==
    IF /\ hz # Null
       /\ FracGe(hz[1], Frac(settings.minF0, 1))
       /\ FracGe(Frac(settings.maxF0, 1), hz[1])
    THEN hz
    ELSE Null

\* one pass of the second loop of buildChunkPitchPlan: the chunk at offset i.
\* midi and shiftSemis are in 1/MidiUnit semitones.
PlanChunk(mono, sr, settings, chunkSize, xfade, keyRoot, i) ==
    LET slice   == SubSeq(mono, i + 1, i + chunkSize)
        voiced  == ~BelowGate(slice, settings.gateDb) /\ keyRoot # Null
        minLag  == sr \div settings.maxF0
        maxLag  == sr \div settings.minF0
        est     == IF voiced THEN estimateF0_AMDF(slice, sr, minLag, maxLag) ELSE Null
        inRange == /\ est # Null
                   /\ FracGe(est[1], Frac(settings.minF0, 1))
                   /\ FracGe(Frac(settings.maxF0, 1), est[1])
        hz      == IF voiced THEN KeptHz(est, settings) ELSE Null
        midi    == IF voiced /\ inRange THEN Some(hzToMidi(est[1])) ELSE Null
        target  == IF voiced /\ inRange
                   THEN Some(nearestMidiInMajorScale(midi[1], keyRoot[1]))
                   ELSE Null
        shift   == IF voiced /\ inRange THEN MidiUnit * target[1] - midi[1] ELSE 0
    IN  [start      |-> i,
         length     |-> chunkSize,
         xfade      |-> xfade,
         voiced     |-> hz # Null /\ keyRoot # Null,
         f0Hz       |-> hz,
         midi       |-> midi,
         targetMidi |-> target,
         shiftSemis |-> shift]

\* function buildChunkPitchPlan(mono, sr, settings), for chunkSize >= 1
buildChunkPitchPlan(mono, sr, settings) ==
    LET chunkSize == MsToSamples(sr, settings.chunkMs)
        xfade     == MsToSamples(sr, settings.xfadeMs)
        hop       == chunkSize
        keyRoot   == FindKeyRoot(mono, sr, settings, chunkSize, hop, 0)
        nChunks   == Len(mono) \div hop
    IN  [keyRootMidi |-> keyRoot,
         chunks      |-> [k \in 1 .. nChunks |->
                            PlanChunk(mono, sr, settings, chunkSize, xfade,
                                      keyRoot, (k - 1) * hop)]]

---------------------------------------------------------------------------
(* Scale logic of the worker *)

buildMajorScaleMidi(rootMidi) ==
    LET pcs    == {0, 2, 4, 5, 7, 9, 11}
        rootPc == mod(rootMidi, 12)
    IN  {mod(rootPc + d, 12) : d \in pcs}

\* bestDist starts at Infinity: [inf |-> TRUE]; afterwards [inf |-> FALSE, v |-> dist]
Infinity == [inf |-> TRUE, v |-> 0]

\* the comparison turned round: keeps the candidate that is farther away
Farther(dist, bestDist) == bestDist.inf \/ dist > bestDist.v

\* "if (dist < bestDist)"
Closer(dist, bestDist) == bestDist.inf \/ dist < bestDist.v

\* the loop "for (let d = -12; d <= 12; d++)" from d on; dist in 1/MidiUnit
RECURSIVE ScanScale(_, _, _, _, _, _)
ScanScale(midiFloat, scalePcSet, m0, d, best, bestDist) ==
    IF d > 12 THEN best
    ELSE LET m    == m0 + d
             dist == Abs(MidiUnit * m - midiFloat)
         IN  IF mod(m, 12) \in scalePcSet /\ Closer(dist, bestDist)
             THEN ScanScale(midiFloat, scalePcSet, m0, d + 1, m,
                            [inf |-> FALSE, v |-> dist])
             ELSE ScanScale(midiFloat, scalePcSet, m0, d + 1, best, bestDist)

nearestInScale(midiFloat, scalePcSet) ==
    LET m0 == JsRound(midiFloat)
    IN  ScanScale(midiFloat, scalePcSet, m0, -12, m0, Infinity)

\* the threshold of the per-frame retune test taken for the root's
RootCandidateLowThreshold(pitches, confs, i) ==
    FracGt(pitches[i], Zero) /\ FracGe(confs[i], Frac(7, 20))

\* "if (pitches[i] > 0 && confs[i] >= 0.4)"
RootCandidate(pitches, confs, i) ==
    FracGt(pitches[i], Zero) /\ FracGe(confs[i], Frac(2, 5))

\* the loop of pickRootMidi from index i on (1-based)
RECURSIVE PickRootFrom(_, _, _)
PickRootFrom(pitches, confs, i) ==
    IF i > Len(pitches) THEN 69
    ELSE IF RootCandidate(pitches, confs, i)
         THEN JsRound(hzToMidi(pitches[i]))
         ELSE PickRootFrom(pitches, confs, i + 1)

pickRootMidi(pitches, confs) == PickRootFrom(pitches, confs, 1)

---------------------------------------------------------------------------
(* Pitch detection and utilities of the worker.  Float32Array storage is   *)
(* kept at the precision of the unit; its rounding to single precision is  *)
(* left out.                                                               *)

Min(a, b) == IF a < b THEN a ELSE b
Max(a, b) == IF a > b THEN a ELSE b

clamp(v, lo, hi) == Max(lo, Min(hi, v))

\* clamp01 of the fraction n / d with d > 0
clamp01(v) == IF v.num < 0 THEN Zero
              ELSE IF v.num > v.den THEN Frac(1, 1)
              ELSE v

\* midiToHz of an integer MIDI note: the entry of the note in the table
midiToHz(m) ==
    Frac(MidiThresholdsMilliHz[(m - TableLowMidi) * MidiUnit + 1], 1000)

\* "new Float32Array(len)": len zeros
Float32Array(len) == [i \in 1 .. len |-> 0]

\* a slice that ends where the buffer ends
sliceUnpadded(x, start, len) == SubSeq(x, start + 1, Min(Len(x), start + len))

\* start is 0-based as in the source
slicePadded(x, start, len) ==
    LET end == Min(Len(x), start + len)
    IN  [i \in 1 .. len |-> IF start + i <= end THEN x[start + i]
                            ELSE Float32Array(len)[i]]

\* a fit that fills with ones
fitLengthWithOnes(x, len) == [i \in 1 .. len |-> IF i <= Len(x) THEN x[i] ELSE 1]

fitLength(x, len) ==
    IF Len(x) = len THEN x
    ELSE [i \in 1 .. len |-> IF i <= Len(x) THEN x[i]
                             ELSE Float32Array(len)[i]]

\* the Hann weights "0.5 * (1 - cos(2 pi i / (n - 1)))" in 1/HannScale,
\* rounded to the nearest unit, for the frame lengths the configurations
\* below produce.  For n = 1 the weight is 0/0 = NaN, written 0 here:
\* detectPitch treats that length apart.
HannScale == 16

HannWindow(n) ==
    CASE n = 0 -> <<>>
      [] n = 1 -> <<0>>
      [] n = 2 -> <<0, 0>>
      [] n = 3 -> <<0, 16, 0>>
      [] n = 4 -> <<0, 12, 12, 0>>
      [] n = 50 -> <<0, 0, 0, 1, 1, 2, 2, 3, 4, 5, 6, 7, 8, 9, 10, 11,
                     12, 13, 13, 14, 15, 15, 16, 16, 16, 16, 16, 16, 15,
                     15, 14, 13, 13, 12, 11, 10, 9, 8, 7, 6, 5, 4, 3, 2,
                     2, 1, 1, 0, 0, 0>>

\* buf of detectPitch is kept as  n * AmpScale * HannScale * buf[i]  (1-based)
\* so that the mean needs no division
ac(buf, lag) ==
    IF lag < 0 THEN 0
    ELSE SumTo([i \in 1 .. (Len(buf) - lag) |-> buf[i] * buf[i + lag]],
               Len(buf) - lag)

\* the energy gate left out
EnergyGateOff(buf) == FALSE

\* "rms < 0.01" with rms = sqrt(sum buf^2 / n): in the units of buf,
\* sum * 10^4 < n^3 * AmpScale^2 * HannScale^2, with AmpScale^2 divided out
\* of both sides.  A NaN buffer (n = 1) compares false.
EnergyGate(buf) ==
    LET n == Len(buf)
        k == n * n * n * HannScale * HannScale
        q == 10000 \div (AmpScale * AmpScale)
    IN  n > 1 /\ SumSq(buf) < (k + q - 1) \div q

\* bestVal starts at -Infinity: [inf |-> TRUE]
NegInfinity == [inf |-> TRUE, v |-> 0]

\* the loop "for (let lag = minLag; lag <= maxLag; lag++)" from lag on
RECURSIVE LagLoop(_, _, _, _, _)
LagLoop(buf, lag, maxLag, bestLag, bestVal) ==
    IF lag > maxLag THEN bestLag
    ELSE LET sum == ac(buf, lag)
         IN  IF bestVal.inf \/ sum > bestVal.v
             THEN LagLoop(buf, lag + 1, maxLag, lag, [inf |-> FALSE, v |-> sum])
             ELSE LagLoop(buf, lag + 1, maxLag, bestLag, bestVal)

\* resolution of the refined lag: units per sample
LagScale == 64

\* floor(n / d) for d # 0
FloorDiv(n, d) == IF d > 0 THEN n \div d ELSE (-n) \div (-d)

Unvoiced == [f0 |-> Zero, confidence |-> Zero]

\* a test that keeps every frequency
NeverOutOfBounds(f0) == FALSE

\* "f0 < minF || f0 > maxF"
OutOfBounds(f0) == FracGt(Frac(80, 1), f0) \/ FracGt(f0, Frac(1000, 1))

detectPitch(x, sr) ==
    LET n   == Len(x)
        sum == SumTo(x, n)
        w   == HannWindow(n)
        buf == [i \in 1 .. n |-> (n * x[i] - sum) * w[i]]
    IN  IF EnergyGate(buf) THEN Unvoiced
        ELSE
        LET minLag  == sr \div 1000
            maxLag  == Min(n - 2, sr \div 80)
            bestLag == LagLoop(buf, minLag, maxLag, -1, NegInfinity)
        IN  IF bestLag <= 0 THEN Unvoiced
            ELSE
            LET y0    == ac(buf, bestLag - 1)
                y1    == ac(buf, bestLag)
                y2    == ac(buf, bestLag + 1)
                denom == y0 - 2 * y1 + y2
                \* shift and refinedLag in 1/LagScale samples, floored
                shift == IF denom # 0
                         THEN FloorDiv(LagScale * (y0 - y2), 2 * denom)
                         ELSE 0
                refinedLag == bestLag * LagScale + shift
                f0    == IF refinedLag > 0 THEN Frac(sr * LagScale, refinedLag)
                         ELSE Zero
                zero  == ac(buf, 0)
                confidence == IF zero > 0 THEN clamp01(Frac(y1, zero))
                              ELSE Zero
            IN  IF OutOfBounds(f0)
                THEN [f0 |-> Zero,
                      confidence |-> Frac(confidence.num, 10 * confidence.den)]
                ELSE [f0 |-> f0, confidence |-> confidence]

\* greatest common divisor of a >= 0 and b >= 0
RECURSIVE Gcd(_, _)
Gcd(a, b) == IF b = 0 THEN a ELSE Gcd(b, a % b)

\* an output sample is a fraction of 1/AmpScale of full scale, in lowest
\* terms with a positive denominator
Norm(n, d) == LET g == Gcd(Abs(n), d) IN Frac(n \div g, d \div g)

FracAdd(a, b) == Norm(a.num * b.den + b.num * a.den, a.den * b.den)

\* a limiter that lets every sample through
PassThrough(v, limit) == v

\* The float32 values next to 0.98 are 16441671 / 2^24 and 16441672 / 2^24:
\* 0.98 is stored in a Float32Array as the upper one, 0.98000001907...,
\* written here in 1/AmpScale of full scale.
LimitAsFloat32 == Frac(10276045, 1048576)

\* The least float32 sample v, in 1/AmpScale of full scale, for which the
\* double v / (1 + v / 0.98) lies above the midpoint of those two values,
\* so that the store into the Float32Array rounds it up: 89515768 of full
\* scale.
RoundsUpFrom == 895157680

\* "x[i] = v / (1 + Math.abs(v) / a)" with a = limit / 100 of full scale,
\* x a Float32Array and the only limit of the program, 98.  The quotient of
\* a sample below RoundsUpFrom is kept exact (the store moves it by less
\* than 2^-24 and not beyond 16441671 / 2^24).
SoftClip(v, limit) ==
    IF Abs(v.num) \div v.den >= RoundsUpFrom
    THEN IF v.num > 0 THEN LimitAsFloat32
         ELSE Frac(-LimitAsFloat32.num, LimitAsFloat32.den)
    ELSE Norm(limit * AmpScale * v.num,
              limit * AmpScale * v.den + 100 * Abs(v.num))

softClipInPlace(x, limit) == [i \in 1 .. Len(x) |-> SoftClip(x[i], limit)]

---------------------------------------------------------------------------
(* Harnesses: each specification below drives one part of the program and  *)
(* leaves the variables of the other parts at rest.                        *)

IdleQuant == qMidi = 0 /\ qRoot = 0 /\ qPlan = <<>> /\ qWorker = <<>>
IdleRoot == rPitches = <<>> /\ rConfs = <<>> /\ rRoot = <<>>
IdlePlan ==
    /\ pMono = <<>>
    /\ pSr = 0
    /\ pSettings = <<>>
    /\ pPlan = <<>>
    /\ pAnalysis = <<>>

\* the worker as its script leaves it (main.js lines 573-577), nothing sent
WorkerLoaded ==
    /\ SR = 48000
    /\ CHUNK_MS = 120
    /\ OVERLAP_MS = 20
    /\ rb = Null
    /\ rbReady = FALSE
    /\ inbox = <<>>
    /\ outbox = <<>>
    /\ creating = {}
    /\ phase = "idle"
    /\ run = [req |-> 0]
    /\ sent = 0
    /\ posted = <<>>
    /\ threw = {}

IdleWorker == WorkerLoaded /\ rate = 0

\* the page of part_001 as its script leaves it (lines 44-46, 131-132), with
\* nothing recorded
IdlePage ==
    /\ workerReady = FALSE
    /\ btnProcessDisabled = TRUE
    /\ controls = [chunkMs |-> 120, xfadeMs |-> 12]
    /\ rawBuffer = <<>>
    /\ polling = {}
    /\ clicks = 0
    /\ asked = {}

\* no helper has been called
IdleFrame ==
    /\ hCall = "none"
    /\ hX = <<>>
    /\ hStart = 0
    /\ hLen = 0
    /\ hOut = <<>>
    /\ hAfter = <<>>
    /\ hAcc = <<>>
    /\ hClipped = <<>>
    /\ hSr = 0
    /\ hEst = <<>>

Buttons == {"btnStart", "btnStop", "btnPlayRaw", "btnProcess"}

\* the page of main.js as its script leaves it (lines 36-54): nothing
\* recorded, no worker, and only the start button enabled
MainLoaded ==
    /\ mic = "idle"
    /\ take = 0
    /\ mainRawBuffer = 0
    /\ processedBuffer = 0
    /\ worker = FALSE
    /\ pendingProcess = FALSE
    /\ disabled = [b \in Buttons |-> b # "btnStart"]
    /\ toWorker = <<>>
    /\ toPage = <<>>
    /\ playing = [kind |-> "none", take |-> 0]
    /\ lastClick = "none"
    /\ sincePost = <<>>

IdleMain == MainLoaded

---------------------------------------------------------------------------
(* The quantizers applied to every target and root of the bounds *)

MidiTargets == (MidiLow * MidiUnit) .. (MidiHigh * MidiUnit)
Roots == 0 .. MaxRoot

InitQuant ==
    /\ qMidi \in MidiTargets
    /\ qRoot \in Roots
    /\ qPlan = <<>>
    /\ qWorker = <<>>
    /\ IdleRoot /\ IdlePlan /\ IdleWorker /\ IdlePage /\ IdleFrame
    /\ IdleMain

\* the chunk planner quantizes the target
CallNearestMidiInMajorScale ==
    /\ qPlan = <<>>
    /\ qPlan' = <<nearestMidiInMajorScale(qMidi, qRoot)>>
    /\ UNCHANGED <<qMidi, qRoot, qWorker, rootVars, planVars, workerVars,
                   pageVars, frameVars, mainVars>>

\* the worker quantizes the target
CallNearestInScale ==
    /\ qWorker = <<>>
    /\ qWorker' = <<nearestInScale(qMidi, buildMajorScaleMidi(qRoot))>>
    /\ UNCHANGED <<qMidi, qRoot, qPlan, rootVars, planVars, workerVars,
                   pageVars, frameVars, mainVars>>

NextQuant ==
    \/ CallNearestMidiInMajorScale
    \/ CallNearestInScale

SpecQuant == InitQuant /\ [][NextQuant]_vars

---------------------------------------------------------------------------
(* Claims about the quantizers *)

\* the pitch class of note n relative to the root, mathematically
RelPc(n, root) == (n - root) % 12
InScale(n, root) == RelPc(n, root) \in {0, 2, 4, 5, 7, 9, 11}
\* distance of note n from the target, in 1/MidiUnit semitones
DistTo(n) == Abs(MidiUnit * n - qMidi)
\* the integer notes around the target that can be nearest to it
NotesAround == (MidiLow - 14) .. (MidiHigh + 14)
\* Math.round as the claims state it: halves go upward
RoundHalfUp(m) == CHOOSE k \in NotesAround :
                     2 * MidiUnit * k - MidiUnit <= 2 * m
                     /\ 2 * m < 2 * MidiUnit * k + MidiUnit

\* C2: for every target and every root, the note each quantizer returns has
\* a pitch class that, relative to the root's, lies in {0,2,4,5,7,9,11}.
C2_ResultInScale ==
    /\ qPlan # <<>> => InScale(qPlan[1], qRoot)
    /\ qWorker # <<>> => InScale(qWorker[1], qRoot)

\* C2 witness: target 58 with root A; both quantizers answered 57 or 59.
C2_Witness ==
    /\ qMidi = 58 * MidiUnit /\ qRoot = 9
    /\ qPlan # <<>> /\ qPlan[1] \in {57, 59}
    /\ qWorker # <<>> /\ qWorker[1] \in {57, 59}

\* C3: nearestMidiInMajorScale returns an in-scale note that minimises the
\* distance to the target over all in-scale notes.
C3_PlanQuantizerNearest ==
    qPlan # <<>> =>
        /\ InScale(qPlan[1], qRoot)
        /\ \A n \in NotesAround :
              InScale(n, qRoot) => DistTo(qPlan[1]) <= DistTo(n)

\* C4: whenever two in-scale notes are equally distant from the target (and
\* no in-scale note is closer), nearestInScale returns the upper of the two.
C4_TieGoesUp ==
    qWorker # <<>> =>
        \A lo, hi \in NotesAround :
            ( /\ lo < hi
              /\ InScale(lo, qRoot) /\ InScale(hi, qRoot)
              /\ DistTo(lo) = DistTo(hi)
              /\ \A n \in NotesAround : InScale(n, qRoot) => DistTo(lo) <= DistTo(n) )
            => qWorker[1] = hi

\* C5: when round(m) is an in-scale note, nearestInScale(m, scale) = round(m).
C5_IdempotentOnInScale ==
    (qWorker # <<>> /\ InScale(RoundHalfUp(qMidi), qRoot))
        => qWorker[1] = RoundHalfUp(qMidi)

\* C6: the note each quantizer returns is at most 12 semitones from the target.
C6_WithinOctave ==
    /\ qPlan # <<>> => DistTo(qPlan[1]) <= 12 * MidiUnit
    /\ qWorker # <<>> => DistTo(qWorker[1]) <= 12 * MidiUnit

\* C6 witness: an out-of-scale target; both quantizers moved away from it.
C6_Witness ==
    /\ qPlan # <<>> /\ qWorker # <<>>
    /\ ~InScale(JsRound(qMidi), qRoot)
    /\ DistTo(qPlan[1]) >= MidiUnit
    /\ DistTo(qWorker[1]) > 0

---------------------------------------------------------------------------
(* pickRootMidi applied to every sequence of estimates of the bounds *)

\* estimates as detectPitch returns them: f0 0 (absent) or inside
\* 80 Hz .. 1000 Hz; confidence 0, 0.1 * c, or c in [0, 1]
SampleF0 == {Zero, Frac(220, 1), Frac(233, 1), Frac(1760, 2)}
SampleConfidence == {Zero, Frac(1, 25), Frac(7, 20), Frac(2, 5), Frac(1, 1)}

InitRoot ==
    /\ rPitches = <<>>
    /\ rConfs = <<>>
    /\ rRoot = <<>>
    /\ IdleQuant /\ IdlePlan /\ IdleWorker /\ IdlePage /\ IdleFrame
    /\ IdleMain

\* "pitches.push(f0); confs.push(confidence);" of processAudio's first loop
PushEstimate ==
    /\ rRoot = <<>>
    /\ Len(rPitches) < MaxEstimates
    /\ \E f \in SampleF0, c \in SampleConfidence :
          /\ rPitches' = Append(rPitches, f)
          /\ rConfs' = Append(rConfs, c)
    /\ UNCHANGED <<rRoot, quantVars, planVars, workerVars, pageVars, frameVars, mainVars>>

\* "const rootMidi = pickRootMidi(pitches, confs);"
CallPickRootMidi ==
    /\ rRoot = <<>>
    /\ rRoot' = <<pickRootMidi(rPitches, rConfs)>>
    /\ UNCHANGED <<rPitches, rConfs, quantVars, planVars, workerVars,
                   pageVars, frameVars, mainVars>>

NextRoot ==
    \/ PushEstimate
    \/ CallPickRootMidi

SpecRoot == InitRoot /\ [][NextRoot]_vars

\* the MIDI note nearest to each sample frequency, from the note table:
\* A3 = 220 Hz, A#3 = 233.08 Hz, A5 = 880 Hz
NoteOf(f) ==
    CASE f = Frac(220, 1) -> 57
      [] f = Frac(233, 1) -> 58
      [] f = Frac(1760, 2) -> 81

\* estimate i has a present frequency and a confidence of at least 0.4
Qualifies(i) ==
    rPitches[i].num > 0 /\ 10 * rConfs[i].num >= 4 * rConfs[i].den

\* C8: pickRootMidi returns the rounded MIDI note of the earliest estimate
\* with a present frequency and confidence >= 0.4, whatever follows it; when
\* no estimate qualifies it returns the fallback root, of pitch class 9.
C8_RootIsFirstConfident ==
    rRoot # <<>> =>
        LET Q == {i \in 1 .. Len(rPitches) : Qualifies(i)}
        IN  IF Q = {}
            THEN rRoot[1] % 12 = 9 /\ rRoot[1] = 69
            ELSE \E i \in Q :
                    /\ \A j \in Q : i <= j
                    /\ rRoot[1] = NoteOf(rPitches[i])

\* C8 witness: the first estimate is present but not confident enough, the
\* second qualifies, a later one qualifies with another note.
C8_Witness ==
    /\ rRoot = <<58>>
    /\ Len(rPitches) = 3
    /\ rPitches[1].num > 0 /\ ~Qualifies(1)
    /\ Qualifies(2) /\ Qualifies(3)
    /\ NoteOf(rPitches[3]) # 58

\* C8 witness of the fallback: estimates were given and none qualifies.
C8_WitnessFallback ==
    /\ rRoot = <<69>>
    /\ Len(rPitches) = 2
    /\ \A i \in 1 .. 2 : ~Qualifies(i)

---------------------------------------------------------------------------
(* buildChunkPitchPlan applied to the recordings and settings of the bounds *)

\* samples per recorded block of the model
BlockLen == 10

\* the blocks a recording is made of, each starting its wave anew: silence;
\* a quiet and a loud square wave of period 4; a loud wave of period 2; a
\* loud wave of period 5; a loud constant
Blocks ==
    { [i \in 1 .. BlockLen |-> 0],
      [i \in 1 .. BlockLen |-> IF (i - 1) % 4 < 2 THEN 1 ELSE -1],
      [i \in 1 .. BlockLen |-> IF (i - 1) % 4 < 2 THEN 5 ELSE -5],
      [i \in 1 .. BlockLen |-> IF (i - 1) % 2 < 1 THEN 5 ELSE -5],
      [i \in 1 .. BlockLen |-> CASE (i - 1) % 5 < 2 -> 5
                                 [] (i - 1) % 5 = 2 -> 0
                                 [] OTHER -> -5],
      [i \in 1 .. BlockLen |-> 5] }

\* sample rates of the recordings of the model
PlanSampleRates == {400}

\* settings records as getSettings delivers them (each field inside its clamp)
PlanSettings ==
    [chunkMs : {50}, xfadeMs : {12, 40}, gateDb : {-20, -10},
     minF0 : {40}, maxF0 : {200, 300}]

InitPlan ==
    /\ pMono = <<>>
    /\ pSr \in PlanSampleRates
    /\ pSettings \in PlanSettings
    /\ pPlan = <<>>
    /\ pAnalysis = <<>>
    /\ IdleQuant /\ IdleRoot /\ IdleWorker /\ IdlePage /\ IdleFrame
    /\ IdleMain

\* recorderNode.onaudioprocess: one more block of samples is recorded
RecordBlock ==
    /\ pAnalysis = <<>>
    /\ pPlan = <<>>
    /\ Len(pMono) < MaxBlocks * BlockLen
    /\ \E b \in Blocks : pMono' = pMono \o b
    /\ UNCHANGED <<pSr, pSettings, pPlan, pAnalysis, quantVars, rootVars,
                   workerVars, pageVars, frameVars, mainVars>>

\* stopRecording: the recording ends and
\* "const analysis = analyzeMonophonicPitch(mono, sampleRate, getSettings());"
StopRecording ==
    /\ pAnalysis = <<>>
    /\ pAnalysis' = Some(analyzeMonophonicPitch(pMono, pSr, pSettings))
    /\ UNCHANGED <<pMono, pSr, pSettings, pPlan, quantVars, rootVars,
                   workerVars, pageVars, frameVars, mainVars>>

\* processRecording, which returns at once before stopRecording has set
\* rawBuffer: "const plan = buildChunkPitchPlan(mono, sampleRate, settings);"
BuildPlan ==
    /\ pAnalysis # <<>>
    /\ pPlan = <<>>
    /\ pPlan' = Some(buildChunkPitchPlan(pMono, pSr, pSettings))
    /\ UNCHANGED <<pMono, pSr, pSettings, pAnalysis, quantVars, rootVars,
                   workerVars, pageVars, frameVars, mainVars>>

NextPlan ==
    \/ RecordBlock
    \/ StopRecording
    \/ BuildPlan

SpecPlan == InitPlan /\ [][NextPlan]_vars

\* the chunks of the plan that was built
PlanChunks == IF pPlan = <<>> THEN {}
              ELSE {pPlan[1].chunks[k] : k \in 1 .. Len(pPlan[1].chunks)}

\* C7: every chunk-plan entry with voiced = false carries no shift
\* (shiftSemis = 0, targetMidi null), and every entry with voiced = true has
\* an estimated frequency inside [minF0, maxF0]; also when no key root was
\* found.
C7_UnvoicedUnshifted ==
    \A c \in PlanChunks :
        /\ ~c.voiced => c.shiftSemis = 0 /\ c.targetMidi = Null
        /\ c.voiced =>
              /\ c.f0Hz # Null
              /\ c.f0Hz[1].num >= pSettings.minF0 * c.f0Hz[1].den
              /\ c.f0Hz[1].num <= pSettings.maxF0 * c.f0Hz[1].den

\* C7 witness: a plan with a key root in which one chunk is voiced and
\* shifted and another is loud enough but unvoiced.
C7_Witness ==
    /\ pPlan # <<>>
    /\ pPlan[1].keyRootMidi # Null
    /\ \E c \in PlanChunks : c.voiced /\ c.shiftSemis # 0
    /\ \E c \in PlanChunks :
          /\ ~c.voiced
          /\ ~BelowGate(SubSeq(pMono, c.start + 1, c.start + c.length),
                        pSettings.gateDb)

\* C7 witness without a key root: chunks were planned and none is voiced.
C7_WitnessNoKey ==
    /\ pPlan # <<>>
    /\ pPlan[1].keyRootMidi = Null
    /\ Len(pPlan[1].chunks) = 2
    /\ \E c \in PlanChunks :
          SumSq(SubSeq(pMono, c.start + 1, c.start + c.length)) > 0

---------------------------------------------------------------------------
(* What the page sends to the worker *)

\* the sample rates of the audio context
SampleRates == {20, 1000}

\* the chunkMs and overlapMs of an init message, absent (Null) or given; at
\* 20 Hz they make frames of 2, 3, 4 samples and 1 sample, at 1000 Hz
\* frames of 50 samples
Configs(r) ==
    IF r = 20
    THEN {<<Null, Null>>, <<Some(150), Some(75)>>, <<Some(200), Some(5)>>,
          <<Some(10), Some(500)>>}
    ELSE {<<Some(50), Some(25)>>, <<Some(20), Some(5)>>}

\* urls: whether rbJsUrl and rbWasmUrl are both given
InitMessages(r) ==
    {[type |-> "init", sampleRate |-> Some(r), chunkMs |-> c[1],
      overlapMs |-> c[2], urls |-> TRUE] : c \in Configs(r)}
    \cup {[type |-> "init", sampleRate |-> Some(r), chunkMs |-> Null,
            overlapMs |-> Null, urls |-> FALSE]}

ToneLen == 25

\* pieces of a recording at 1000 Hz: silence, and a 200 Hz wave of
\* amplitude 0.1
Silence == [i \in 1 .. ToneLen |-> 0]
Tone == [i \in 1 .. ToneLen |-> <<1, 1, 0, -1, -1>>[((i - 1) % 5) + 1]]

\* a short and late note: two periods of the wave after 10 ms of silence,
\* detected with a confidence between 0.35 and 0.4
FaintNote == [i \in 1 .. ToneLen |-> IF i > 10 /\ i <= 19 THEN Tone[i - 10]
                                    ELSE 0]

\* the first n elements of the two-element cycle c repeated
Cycle(c, n) == [i \in 1 .. n |-> c[((i - 1) % 2) + 1]]

\* the recordings the page may send: at 20 Hz up to MaxInputLen samples that
\* are silent, steady at 0.5 or alternating; at 1000 Hz one or two pieces,
\* or the short note
Recordings(r) ==
    IF r = 20
    THEN {Cycle(c, n) : c \in {<<0, 0>>, <<5, 5>>, <<5, 0>>, <<0, 5>>},
                        n \in 0 .. MaxInputLen}
    ELSE {Silence, Tone, FaintNote, Tone \o Tone, Silence \o Silence,
          Silence \o Tone}

Init ==
    /\ rate \in SampleRates
    /\ WorkerLoaded
    /\ IdleQuant /\ IdleRoot /\ IdlePlan /\ IdlePage /\ IdleFrame
    /\ IdleMain

---------------------------------------------------------------------------
(* The worker: self.onmessage, loadRubberBand and processAudio.             *)
(*                                                                         *)
(* A handler of the worker runs to completion, so no handler starts while  *)
(* processAudio is under way (phase = "frames"); the page goes on sending  *)
(* messages and taking replies meanwhile.  processAudio is followed frame  *)
(* by frame, each call of rb.pitchShift being one step whose outcome the   *)
(* worker does not control.                                                *)
(*                                                                         *)
(* Every message carries the number of the request it belongs to ("id" on  *)
(* a message to the worker, "req" on a reply).  The program has no such    *)
(* field: it is history kept for stating properties, as are the variables  *)
(* posted and threw and the fields "same" and "calls" of run (calls: the   *)
(* start offset of the frame of every call of rb.pitchShift so far).       *)

\* "Math.round((ms / 1000) * SR)"
MsToFrames(ms, sr) == (2 * ms * sr + 1000) \div 2000

\* "msg.field ?? current"
OrElse(field, current) == IF field = Null THEN current ELSE field[1]

ReadyMsg(id) == [type |-> "ready", req |-> id]
ErrorMsg(id, text) == [type |-> "error", message |-> text, req |-> id]
ResultMsg(id, out, debug) ==
    [type |-> "result", audio |-> out, debug |-> debug, req |-> id]

\* the page posts an init message
SendInit ==
    /\ sent < MaxMessages
    /\ \E m \in InitMessages(rate) :
           inbox' = Append(inbox, m @@ [id |-> sent + 1])
    /\ sent' = sent + 1
    /\ UNCHANGED <<SR, CHUNK_MS, OVERLAP_MS, rb, rbReady, outbox, creating,
                   phase, run, rate, posted, threw>>
    /\ UNCHANGED <<quantVars, rootVars, planVars, pageVars, frameVars, mainVars>>

\* the page posts a recording to process
SendProcess ==
    /\ sent < MaxMessages
    /\ \E audio \in Recordings(rate) :
           inbox' = Append(inbox, [type |-> "process", audio |-> audio,
                                   id |-> sent + 1])
    /\ sent' = sent + 1
    /\ UNCHANGED <<SR, CHUNK_MS, OVERLAP_MS, rb, rbReady, outbox, creating,
                   phase, run, rate, posted, threw>>
    /\ UNCHANGED <<quantVars, rootVars, planVars, pageVars, frameVars, mainVars>>

\* the page takes the oldest reply
TakeReply ==
    /\ outbox # <<>>
    /\ outbox' = Tail(outbox)
    /\ UNCHANGED <<SR, CHUNK_MS, OVERLAP_MS, rb, rbReady, inbox, creating,
                   phase, run, rate, sent, posted, threw>>
    /\ UNCHANGED <<quantVars, rootVars, planVars, pageVars, frameVars, mainVars>>

\* the worker posts the replies ms, in order
PostAll(ms) ==
    /\ outbox' = outbox \o ms
    /\ posted' = posted \o [k \in 1 .. Len(ms) |->
                                [type |-> ms[k].type, req |-> ms[k].req]]

Post(m) == PostAll(<<m>>)

\* onmessage with an init message: the configuration is taken, then
\* loadRubberBand either throws before its await (a URL missing, or the
\* script defining no global with create), and the catch posts the error, or
\* is left waiting for api.create
HandleInit ==
    /\ phase = "idle"
    /\ inbox # <<>>
    /\ Head(inbox).type = "init"
    /\ LET msg == Head(inbox)
           chunkMs == clamp(OrElse(msg.chunkMs, CHUNK_MS), 50, 200)
       IN  /\ SR' = OrElse(msg.sampleRate, SR)
           /\ CHUNK_MS' = chunkMs
           /\ OVERLAP_MS' = clamp(OrElse(msg.overlapMs, OVERLAP_MS), 5,
                                  chunkMs \div 2)
           /\ IF ~msg.urls
              THEN /\ Post(ErrorMsg(msg.id, "Missing URL in init message."))
                   /\ UNCHANGED creating
              ELSE \E global \in BOOLEAN :
                      IF global
                      THEN /\ creating' = creating \cup {msg.id}
                           /\ UNCHANGED <<outbox, posted>>
                      ELSE /\ Post(ErrorMsg(msg.id, "No RubberBand global."))
                           /\ UNCHANGED creating
    /\ inbox' = Tail(inbox)
    /\ UNCHANGED <<rb, rbReady, phase, run, rate, sent, threw>>
    /\ UNCHANGED <<quantVars, rootVars, planVars, pageVars, frameVars, mainVars>>

\* api.create settles and the init handler resumes after its await: with an
\* instance that has pitchShift the worker becomes ready, otherwise the
\* rejection or the missing method reaches the catch
FinishCreate ==
    /\ phase = "idle"
    /\ \E id \in creating :
          /\ creating' = creating \ {id}
          /\ \E usable \in BOOLEAN :
                IF usable
                THEN /\ rb' = Some("instance")
                     /\ rbReady' = TRUE
                     /\ Post(ReadyMsg(id))
                ELSE /\ Post(ErrorMsg(id, "RubberBand instance unusable."))
                     /\ UNCHANGED <<rb, rbReady>>
    /\ UNCHANGED <<SR, CHUNK_MS, OVERLAP_MS, inbox, phase, run, rate, sent,
                   threw>>
    /\ UNCHANGED <<quantVars, rootVars, planVars, pageVars, frameVars, mainVars>>

\* "new Float32Array(input.length)" of processAudio, as output samples
NewOutOneMore(input) == [i \in 1 .. Len(input) + 1 |-> Zero]

NewOut(input) == [i \in 1 .. Len(input) |-> Zero]

\* processAudio up to its second loop: the frame sizes, the first loop
\* (the estimates of every frame), the root and the scale, the buffers
BeginProcessAudio(id, input) ==
    LET chunkN   == Max(1, MsToFrames(CHUNK_MS, SR))
        overlapN == Max(1, MsToFrames(OVERLAP_MS, SR))
        hopN     == Max(1, chunkN - overlapN)
        count    == (Len(input) + hopN - 1) \div hopN
        found    == [k \in 1 .. count |->
                        detectPitch(slicePadded(input, (k - 1) * hopN, chunkN),
                                    SR)]
        pitches  == [k \in 1 .. count |-> found[k].f0]
        confs    == [k \in 1 .. count |-> found[k].confidence]
        rootMidi == pickRootMidi(pitches, confs)
    IN  [req      |-> id,
         input    |-> input,
         chunkN   |-> chunkN,
         overlapN |-> overlapN,
         hopN     |-> hopN,
         pitches  |-> pitches,
         confs    |-> confs,
         rootMidi |-> rootMidi,
         scale    |-> buildMajorScaleMidi(rootMidi),
         out      |-> NewOut(input),
         prevTail |-> Float32Array(overlapN),
         frames   |-> <<>>,
         start    |-> 0,
         shifted  |-> <<>>,
         proc     |-> <<>>,
         calls    |-> <<>>,
         same     |-> TRUE]

\* a test that lets a process message through while an init is waiting
RefusedOnlyWithoutInit == ~rbReady /\ creating = {}

\* "if (!rbReady) throw new Error("Worker not initialized. ...")"
NotInitialized == ~rbReady

\* onmessage with a process message
HandleProcess ==
    /\ phase = "idle"
    /\ inbox # <<>>
    /\ Head(inbox).type = "process"
    /\ LET msg == Head(inbox)
       IN  IF NotInitialized
           THEN /\ Post(ErrorMsg(msg.id, "Worker not initialized."))
                /\ UNCHANGED <<phase, run>>
           ELSE /\ run' = BeginProcessAudio(msg.id, msg.audio)
                /\ phase' = "frames"
                /\ UNCHANGED <<outbox, posted>>
    /\ inbox' = Tail(inbox)
    /\ UNCHANGED <<SR, CHUNK_MS, OVERLAP_MS, rb, rbReady, creating, rate,
                   sent, threw>>
    /\ UNCHANGED <<quantVars, rootVars, planVars, pageVars, frameVars, mainVars>>

\* rb.pitchShift(raw, ratio) is not the program's: it throws, or returns its
\* input, or a buffer one sample short, or one sample long with other
\* content (every sample 5)
pitchShift(raw, ratio) ==
    {[thrown |-> TRUE, shifted |-> <<>>]} \cup
    {[thrown |-> FALSE, shifted |-> s] :
        s \in {raw,
               SubSeq(raw, 1, Len(raw) - 1),
               [i \in 1 .. Len(raw) + 1 |-> 5]}}

\* the pitch decision of one frame: "if (f0 > 0 && confidence >= 0.35)"
FrameDecision(raw, scale) ==
    LET est    == detectPitch(raw, SR)
        retune == FracGt(est.f0, Zero) /\ FracGe(est.confidence, Frac(7, 20))
        target == nearestInScale(hzToMidi(est.f0), scale)
        hz     == midiToHz(target)
    IN  [f0         |-> est.f0,
         confidence |-> est.confidence,
         ratio      |-> IF retune
                        THEN Frac(hz.num * est.f0.den, hz.den * est.f0.num)
                        ELSE Frac(1, 1),
         targetMidi |-> IF retune THEN Some(target) ELSE Null]

\* the crossfade and the non-overlap region: out after the frame at
\* writeStart is added; n is the 0-based offset in the frame
OverlapAdd(out, prevTail, proc, writeStart, chunkN, overlapN) ==
    LET end     == Min(writeStart + chunkN, Len(out))
        fadeEnd == Min(overlapN, end - writeStart)
        span    == Max(1, fadeEnd - 1)
    IN  [idx \in 1 .. Len(out) |->
            LET n == idx - 1 - writeStart
            IN  IF n >= 0 /\ n < fadeEnd
                THEN FracAdd(out[idx],
                             Norm(prevTail[n + 1] * (span - n) + proc[n + 1] * n,
                                  span))
                ELSE IF n >= fadeEnd /\ n < end - writeStart
                THEN FracAdd(out[idx], Frac(proc[n + 1], 1))
                ELSE out[idx]]

\* the replies of the catch of onmessage when processAudio threw, with the
\* output written so far posted first
RepliesOnThrowWithPartial(r) ==
    <<ResultMsg(r.req, r.out, [frames |-> r.frames]),
      ErrorMsg(r.req, "pitchShift failed.")>>

\* the replies of the catch of onmessage when processAudio threw
RepliesOnThrow(r) == <<ErrorMsg(r.req, "pitchShift failed.")>>

\* a loop that stays on its frame
StayAtStart(r) == r.start

\* "start += hopN" of the second loop
AdvanceStart(r) == r.start + r.hopN

\* one iteration of the second loop of processAudio
ProcessFrame ==
    /\ phase = "frames"
    /\ run.start < Len(run.input)
    /\ LET raw == slicePadded(run.input, run.start, run.chunkN)
           dec == FrameDecision(raw, run.scale)
       IN  \E res \in pitchShift(raw, dec.ratio) :
              IF res.thrown
              THEN /\ phase' = "idle"
                   /\ threw' = threw \cup {run.req}
                   /\ PostAll(RepliesOnThrow(run))
                   /\ run' = [run EXCEPT !.calls = Append(run.calls, run.start)]
              ELSE LET proc == fitLength(res.shifted, run.chunkN)
                   IN  /\ run' = [run EXCEPT
                              !.out = OverlapAdd(run.out, run.prevTail, proc,
                                                 run.start, run.chunkN,
                                                 run.overlapN),
                              !.prevTail = SubSeq(proc,
                                                  run.chunkN - run.overlapN + 1,
                                                  run.chunkN),
                              !.frames = Append(run.frames,
                                  [frame       |-> Len(run.frames),
                                   startSample |-> run.start,
                                   f0          |-> dec.f0,
                                   confidence  |-> dec.confidence,
                                   ratio       |-> dec.ratio,
                                   targetMidi  |-> dec.targetMidi]),
                              !.start = AdvanceStart(run),
                              !.shifted = res.shifted,
                              !.proc = proc,
                              !.calls = Append(run.calls, run.start),
                              !.same = run.same /\ res.shifted = raw]
                       /\ UNCHANGED <<phase, outbox, posted, threw>>
    /\ UNCHANGED <<SR, CHUNK_MS, OVERLAP_MS, rb, rbReady, inbox, creating,
                   rate, sent>>
    /\ UNCHANGED <<quantVars, rootVars, planVars, pageVars, frameVars, mainVars>>

\* the second loop is over: the limiter, then the result is posted
FinishProcess ==
    /\ phase = "frames"
    /\ run.start >= Len(run.input)
    /\ Post(ResultMsg(run.req, softClipInPlace(run.out, 98),
                      [sampleRate |-> SR,
                       chunkMs    |-> CHUNK_MS,
                       overlapMs  |-> OVERLAP_MS,
                       chunkN     |-> run.chunkN,
                       overlapN   |-> run.overlapN,
                       hopN       |-> run.hopN,
                       rootMidi   |-> run.rootMidi,
                       frames     |-> run.frames]))
    /\ phase' = "idle"
    /\ UNCHANGED <<SR, CHUNK_MS, OVERLAP_MS, rb, rbReady, inbox, creating,
                   run, rate, sent, threw>>
    /\ UNCHANGED <<quantVars, rootVars, planVars, pageVars, frameVars, mainVars>>

Next ==
    \/ SendInit
    \/ SendProcess
    \/ TakeReply
    \/ HandleInit
    \/ FinishCreate
    \/ HandleProcess
    \/ ProcessFrame
    \/ FinishProcess

Spec == Init /\ [][Next]_vars

---------------------------------------------------------------------------
(* Claims about a pass of the worker *)

\* the replies still in the outbox that are results of the latest pass
ResultsOfRun ==
    {i \in DOMAIN outbox : outbox[i].type = "result" /\ outbox[i].req = run.req}

\* the replies posted so far, of type t, to request r
RepliesTo(r, t) ==
    {k \in DOMAIN posted : posted[k].req = r /\ posted[k].type = t}

AllZero(x) == \A i \in DOMAIN x : x[i] = 0

\* C1: the output buffer of processAudio has as many samples as the input
\* buffer, for every input length and configuration and whatever lengths
\* rb.pitchShift returned: while the frames are written and in the result
\* posted.
C1_OutputLengthIsInputLength ==
    /\ phase = "frames" => Len(run.out) = Len(run.input)
    /\ \A i \in ResultsOfRun : Len(outbox[i].audio) = Len(run.input)

\* a result is posted for an input of several frames whose length is no
\* multiple of the hop, rb.pitchShift having returned another length than
\* the frame's at least once
C1_Witness ==
    \E i \in ResultsOfRun :
        /\ Len(run.input) % run.hopN # 0
        /\ Len(run.frames) >= 2
        /\ ~run.same

\* C9: for an all-zero input and rb.pitchShift returning its input
\* unchanged, the result is all zero, no frame is voiced (every estimate
\* has f0 0 and confidence 0, none is retuned) and every frame's ratio is
\* exactly 1.
C9_SilenceInSilenceOut ==
    \A i \in ResultsOfRun :
        AllZero(run.input) /\ run.same =>
            /\ \A n \in DOMAIN outbox[i].audio : outbox[i].audio[n] = Zero
            /\ \A k \in DOMAIN outbox[i].debug.frames :
                   LET f == outbox[i].debug.frames[k]
                   IN  /\ f.f0 = Zero
                       /\ f.confidence = Zero
                       /\ f.targetMidi = Null
                       /\ f.ratio = Frac(1, 1)

\* a result is posted for a silent recording of several frames at the rate
\* where lags above 0 are searched, every call of rb.pitchShift having
\* returned its input
C9_Witness ==
    \E i \in ResultsOfRun :
        /\ AllZero(run.input)
        /\ run.same
        /\ Len(outbox[i].debug.frames) >= 2
        /\ SR = 1000

\* C10: when rb.pitchShift throws in a frame of a pass, the pass ends
\* there, exactly one error and no result is posted for that request.
C10_ThrowAbortsPass ==
    \A r \in threw :
        /\ Cardinality(RepliesTo(r, "error")) = 1
        /\ RepliesTo(r, "result") = {}
        /\ \A i \in DOMAIN outbox :
               outbox[i].req = r => outbox[i].type = "error"
        /\ run.req = r => phase = "idle"

\* rb.pitchShift threw in a later frame of the latest pass, after an
\* earlier frame had written non-zero samples to the output
C10_Witness ==
    /\ run.req \in threw
    /\ Len(run.frames) >= 1
    /\ \E n \in DOMAIN run.out : run.out[n] # Zero

---------------------------------------------------------------------------
(* Claims about the configuration of the worker *)

\* the chunkMs or the overlapMs an init message gives lies outside its
\* bound: chunkMs outside [50, 200], overlapMs outside [5, chunk / 2] for
\* the chunk duration given (the current one when none is given)
OutOfBound(msg) ==
    LET chunkMs == OrElse(msg.chunkMs, CHUNK_MS)
    IN  \/ msg.chunkMs # Null /\ (chunkMs < 50 \/ chunkMs > 200)
        \/ msg.overlapMs # Null /\
              (msg.overlapMs[1] < 5 \/ 2 * msg.overlapMs[1] > chunkMs)

\* the step in which onmessage takes the init message at the head of the inbox
TakesInit ==
    /\ phase = "idle"
    /\ inbox # <<>>
    /\ Head(inbox).type = "init"
    /\ inbox' = Tail(inbox)

\* C11: an init message with a field outside its bound is rejected when it
\* is handled: the worker answers it with an error and does not go on to
\* load the library, so no pass runs with that configuration.
C11_OutOfBoundConfigRejected ==
    [][TakesInit /\ OutOfBound(Head(inbox)) =>
          /\ creating' = creating
          /\ Len(posted') = Len(posted) + 1
          /\ posted'[Len(posted')] = [type |-> "error", req |-> Head(inbox).id]]_vars

---------------------------------------------------------------------------
(* The page of src/unnamed/part_001 driving the worker: the user edits the  *)
(* controls and clicks the process button; processRecordingWithWorker      *)
(* sends an init message unless the worker is known to be ready, waits for *)
(* workerReady and then sends the recording.                               *)

PageRates == {20}

\* what getSettings can return for chunkMs and xfadeMs (part_001 lines 277-278)
PageSettings == [chunkMs : {50}, xfadeMs : {5, 100}]

PageRecordings == {<<0, 0>>, <<5, 0, 5>>}

\* a recording has been made (stopRecording enabled the process button)
InitPage ==
    /\ rate \in PageRates
    /\ WorkerLoaded
    /\ workerReady = FALSE
    /\ btnProcessDisabled = FALSE
    /\ controls \in PageSettings
    /\ rawBuffer \in PageRecordings
    /\ polling = {}
    /\ clicks = 0
    /\ asked = {}
    /\ IdleQuant /\ IdleRoot /\ IdlePlan /\ IdleFrame
    /\ IdleMain

\* the user changes the chunk or crossfade control
EditControls ==
    /\ \E c \in PageSettings \ {controls} : controls' = c
    /\ UNCHANGED <<workerReady, btnProcessDisabled, rawBuffer, polling, clicks,
                   asked>>
    /\ UNCHANGED <<quantVars, rootVars, planVars, workerVars, frameVars, mainVars>>

\* "worker.postMessage({ type: "process", audio: payload }, ...)" by the call
\* that read settings
PostProcess(settings) ==
    /\ inbox' = Append(inbox, [type |-> "process", audio |-> rawBuffer,
                               id |-> sent + 1])
    /\ sent' = sent + 1
    /\ asked' = asked \cup {[id |-> sent + 1, settings |-> settings]}

\* processRecordingWithWorker up to its first await or its end:
\* initWorkerIfNeeded sends init unless workerReady; a ready worker is sent
\* the recording at once
ClickProcess ==
    /\ ~btnProcessDisabled
    /\ clicks < MaxClicks
    /\ clicks' = clicks + 1
    /\ btnProcessDisabled' = TRUE
    /\ LET settings == controls
       IN  IF workerReady
           THEN /\ PostProcess(settings)
                /\ UNCHANGED polling
           ELSE /\ inbox' = Append(inbox,
                        [type |-> "init", sampleRate |-> Some(rate),
                         chunkMs |-> Some(settings.chunkMs),
                         overlapMs |-> Some(settings.xfadeMs),
                         urls |-> TRUE, id |-> sent + 1])
                /\ sent' = sent + 1
                /\ polling' = polling \cup
                       {[call |-> clicks + 1, settings |-> settings,
                         over |-> {q.call : q \in polling}]}
                /\ UNCHANGED asked
    /\ UNCHANGED <<workerReady, controls, rawBuffer>>
    /\ UNCHANGED <<SR, CHUNK_MS, OVERLAP_MS, rb, rbReady, outbox, creating,
                   phase, run, rate, posted, threw>>
    /\ UNCHANGED <<quantVars, rootVars, planVars, frameVars, mainVars>>

\* a mutant of WaitSucceeded: the call goes on whatever the wait gave
WaitEnded == TRUE

\* the wait of processRecordingWithWorker ended with workerReady set
\* (part_001 lines 317-320)
WaitSucceeded == workerReady

\* a waiting call finds workerReady set and sends the recording
PollReady ==
    /\ WaitSucceeded
    /\ \E p \in polling :
          /\ polling' = polling \ {p}
          /\ PostProcess(p.settings)
    /\ UNCHANGED <<workerReady, btnProcessDisabled, controls, rawBuffer, clicks>>
    /\ UNCHANGED <<SR, CHUNK_MS, OVERLAP_MS, rb, rbReady, outbox, creating,
                   phase, run, rate, posted, threw>>
    /\ UNCHANGED <<quantVars, rootVars, planVars, frameVars, mainVars>>

\* a waiting call gives up after 10 s without workerReady; the call that
\* began its wait first is the first to give up
PollTimeout ==
    /\ ~workerReady
    /\ \E p \in polling :
          /\ \A q \in polling : p.call <= q.call
          /\ polling' = polling \ {p}
    /\ btnProcessDisabled' = FALSE
    /\ UNCHANGED <<workerReady, controls, rawBuffer, clicks, asked>>
    /\ UNCHANGED <<quantVars, rootVars, planVars, workerVars, frameVars, mainVars>>

\* worker.onmessage of the page takes the oldest reply
PageOnMessage ==
    /\ outbox # <<>>
    /\ outbox' = Tail(outbox)
    /\ IF Head(outbox).type = "ready"
       THEN /\ workerReady' = TRUE
            /\ UNCHANGED btnProcessDisabled
       ELSE /\ btnProcessDisabled' = FALSE
            /\ UNCHANGED workerReady
    /\ UNCHANGED <<controls, rawBuffer, polling, clicks, asked>>
    /\ UNCHANGED <<SR, CHUNK_MS, OVERLAP_MS, rb, rbReady, inbox, creating,
                   phase, run, rate, sent, posted, threw>>
    /\ UNCHANGED <<quantVars, rootVars, planVars, frameVars, mainVars>>

NextPage ==
    \/ EditControls
    \/ ClickProcess
    \/ PollReady
    \/ PollTimeout
    \/ PageOnMessage
    \/ HandleInit
    \/ FinishCreate
    \/ HandleProcess
    \/ ProcessFrame
    \/ FinishProcess

SpecPage == InitPage /\ [][NextPage]_vars

\* the settings of the call that sent the request of the pass under way
SettingsOfRun == {a.settings : a \in {b \in asked : b.id = run.req}}

\* C12: a pass runs with the configuration its caller supplied for it: the
\* chunk and overlap durations of the settings read by the call that sent
\* the request (the overlap held to at most half the chunk), and the
\* page's sample rate.
C12_PassUsesCallersConfig ==
    phase = "frames" =>
        \A st \in SettingsOfRun :
            /\ SR = rate
            /\ CHUNK_MS = st.chunkMs
            /\ OVERLAP_MS = clamp(st.xfadeMs, 5, st.chunkMs \div 2)

---------------------------------------------------------------------------
(* Claims about the handshake of the worker *)

\* a 'ready' was posted before the k-th reply
ReadyBefore(k) == \E j \in 1 .. (k - 1) : posted[j].type = "ready"

\* the step in which onmessage takes the process message at the head of the inbox
TakesProcess ==
    /\ phase = "idle"
    /\ inbox # <<>>
    /\ Head(inbox).type = "process"
    /\ inbox' = Tail(inbox)

\* C13: a result is posted only after a ready; a process message taken
\* before any ready was posted (an init still waiting for the library or
\* failed, or none sent) is answered at once with one error and starts no
\* pass; one taken after a ready starts a pass, which posts nothing until
\* it ends and ends with exactly one reply, a result or an error, to its
\* request; no request ever has two replies.
C13_Handshake ==
    /\ [](\A k \in DOMAIN posted : posted[k].type = "result" => ReadyBefore(k))
    /\ [](\A k1, k2 \in DOMAIN posted :
             posted[k1].req = posted[k2].req => k1 = k2)
    /\ [][TakesProcess =>
             IF ReadyBefore(Len(posted) + 1)
             THEN /\ phase' = "frames"
                  /\ run'.req = Head(inbox).id
                  /\ posted' = posted
             ELSE /\ phase' = "idle"
                  /\ posted' = Append(posted, [type |-> "error",
                                               req |-> Head(inbox).id])]_vars
    /\ [][phase = "frames" =>
             IF phase' = "frames"
             THEN posted' = posted /\ run'.req = run.req
             ELSE \E t \in {"result", "error"} :
                     posted' = Append(posted, [type |-> t, req |-> run.req])]_vars

\* a process message was refused while an init was still waiting for
\* api.create, and the refusal is in the outbox
C13_Witness ==
    /\ creating # {}
    /\ ~rbReady
    /\ \E i \in DOMAIN outbox :
          /\ outbox[i].type = "error"
          /\ outbox[i].message = "Worker not initialized."

---------------------------------------------------------------------------
(* Claims about the overlap and the frames of a plan *)

\* C14 (the chunk plan): the crossfade of every chunk of a plan is at
\* least 5 ms and at most half the chunk: the xfadeMs the plan was built
\* with is at least 5, and xfade is at most half of length, both in
\* samples as the plan records them.
C14_PlanOverlapWithinBounds ==
    \A c \in PlanChunks :
        /\ pSettings.xfadeMs >= 5
        /\ 2 * c.xfade <= c.length

---------------------------------------------------------------------------
(* Claims about the overlap-add of a pass *)

\* the step in which a frame after the first is written
WritesLaterFrame ==
    /\ phase = "frames"
    /\ Len(run.frames) >= 1
    /\ Len(run'.frames) = Len(run.frames) + 1

\* C15: when a frame after the first has been written, the output sample
\* at every index n of its first overlapN samples is
\* prevTail[n] * (1 - t) + proc[n] * t with t = n / (overlapN - 1) and
\* nothing else (overlapN >= 2; prevTail is the tail of the previous
\* frame's fitted output, which run holds before the step).
C15_OverlapIsLinearCrossfade ==
    [][WritesLaterFrame /\ run.overlapN >= 2 =>
          \A n \in 0 .. (run.overlapN - 1) :
              run.start + n < Len(run.out) =>
                  LET y == run'.out[run.start + n + 1]
                  IN  y.num * (run.overlapN - 1) =
                          y.den * (run.prevTail[n + 1] * (run.overlapN - 1 - n)
                                   + run'.proc[n + 1] * n)]_vars

\* the number of frames of a recording of len samples: the k >= 0 with
\* k * hop < len
FrameCount(len, hop) == (len + hop - 1) \div hop

\* C16: in a pass, rb.pitchShift is called once per frame, for the frames
\* at 0, hopN, 2 * hopN, ... in this order and for no frame twice: the
\* i-th call is for the frame at (i - 1) * hopN, every frame written is the
\* frame of the call with its index, only a call that threw has no frame,
\* and a pass that posts its result has called once for each frame; the
\* crossfade of a frame after the first uses the tail of the output of the
\* call before it, which has returned by then.
C16_OneShiftCallPerFrameInOrder ==
    /\ [](run.req # 0 =>
            /\ \A i \in 1 .. Len(run.calls) :
                   /\ run.calls[i] = (i - 1) * run.hopN
                   /\ run.calls[i] < Len(run.input)
            /\ \A i \in 1 .. Len(run.frames) :
                   run.frames[i].startSample = run.calls[i]
            /\ Len(run.calls) \in {Len(run.frames), Len(run.frames) + 1}
            /\ Len(run.calls) # Len(run.frames) => run.req \in threw
            /\ RepliesTo(run.req, "result") # {} =>
                   Len(run.calls) = FrameCount(Len(run.input), run.hopN))
    /\ [][WritesLaterFrame =>
              /\ Len(run.calls) = Len(run.frames)
              /\ Len(run'.calls) = Len(run.calls) + 1
              /\ run.prevTail = SubSeq(run.proc,
                                       run.chunkN - run.overlapN + 1,
                                       run.chunkN)]_vars

\* a pass has written three frames
C16_Witness ==
    /\ run.req # 0
    /\ Len(run.frames) >= 3
    /\ Len(run.calls) = Len(run.frames)

---------------------------------------------------------------------------
(* Claims about the frames of a plan *)

\* C17: the chunks of a plan start at the offsets k * hop, for every k >= 0
\* with k * hop below the length of the recording, where hop is the chunk
\* length less the overlap length; and every sample of the recording lies
\* inside a chunk, also when the recording ends inside a chunk.
C17_PlanFramesAtHopOffsets ==
    pPlan # <<>> =>
        LET chunkLength   == MsToSamples(pSr, pSettings.chunkMs)
            overlapLength == MsToSamples(pSr, pSettings.xfadeMs)
            hop           == chunkLength - overlapLength
        IN  /\ {c.start : c \in PlanChunks} =
                   {o \in 0 .. Len(pMono) - 1 : o % hop = 0}
            /\ \A i \in 0 .. Len(pMono) - 1 :
                   \E c \in PlanChunks :
                       c.start <= i /\ i < c.start + c.length

---------------------------------------------------------------------------
(* The helpers of the worker, each called on its own with every buffer and *)
(* argument of the bounds                                                  *)

MaxBufLen == 3

\* the samples of the buffers, in 1/AmpScale of full scale
BufSamples == {-5, 0, 5}

Buffers ==
    UNION {[1 .. n -> BufSamples] : n \in 0 .. MaxBufLen}

\* accumulated values: the buffer as it is, a quarter of it, six times it,
\* and amplified to RoundsUpFrom and to the double of it
Accumulated(x) ==
    {[i \in 1 .. Len(x) |-> Norm(x[i], 4)]} \cup
    {[i \in 1 .. Len(x) |-> Frac(x[i] * g, 1)] :
        g \in {1, 6, RoundsUpFrom \div 5, 2 * (RoundsUpFrom \div 5)}}

InitFrame ==
    /\ hCall = "none"
    /\ hX \in Buffers
    /\ hStart = 0
    /\ hLen = 0
    /\ hOut = <<>>
    /\ hAfter = hX
    /\ hAcc = <<>>
    /\ hClipped = <<>>
    /\ hSr = 0
    /\ hEst = <<>>
    /\ IdleQuant /\ IdleRoot /\ IdlePlan /\ IdleWorker /\ IdlePage
    /\ IdleMain

\* slicePadded(x, start, len): x is read only
CallSlicePadded ==
    /\ hCall = "none"
    /\ \E start \in 0 .. MaxBufLen + 1, len \in 0 .. MaxBufLen + 1 :
          /\ hStart' = start
          /\ hLen' = len
          /\ hOut' = slicePadded(hX, start, len)
    /\ hCall' = "slicePadded"
    /\ UNCHANGED <<hX, hAfter, hAcc, hClipped, hSr, hEst>>
    /\ UNCHANGED <<quantVars, rootVars, planVars, workerVars, pageVars,
                   mainVars>>

\* softClipInPlace(x, 0.98) on accumulated values: x is overwritten
CallSoftClipInPlace ==
    /\ hCall = "none"
    /\ \E x \in Accumulated(hX) :
          /\ hAcc' = x
          /\ hClipped' = softClipInPlace(x, 98)
    /\ hCall' = "softClipInPlace"
    /\ UNCHANGED <<hX, hStart, hLen, hOut, hAfter, hSr, hEst>>
    /\ UNCHANGED <<quantVars, rootVars, planVars, workerVars, pageVars,
                   mainVars>>

NextFrame ==
    \/ CallSlicePadded
    \/ CallSoftClipInPlace

SpecFrame == InitFrame /\ [][NextFrame]_vars

\* C18: slicePadded(x, start, len) returns exactly len samples, sample i
\* being x[start + i] when start + i is below the length of x and 0
\* otherwise, also when start is at or beyond the end of x; x is as before.
C18_SlicePaddedZeroFills ==
    hCall = "slicePadded" =>
        /\ Len(hOut) = hLen
        /\ \A i \in 0 .. hLen - 1 :
               hOut[i + 1] = IF hStart + i < Len(hX) THEN hX[hStart + i + 1]
                             ELSE 0
        /\ hAfter = hX

\* a slice that begins inside a buffer with a non-zero sample and ends
\* beyond it
C18_Witness ==
    /\ hCall = "slicePadded"
    /\ hStart >= 1
    /\ hStart < Len(hX)
    /\ hStart + hLen > Len(hX)
    /\ hX[hStart + 1] # 0

\* the sample y is below 0.98 in magnitude
BelowLimit(y) ==
    /\ Abs(y.num) \div y.den < AmpScale
    /\ 100 * Abs(y.num) < 98 * AmpScale * y.den

\* C20, as stated: after the limiter with limit 0.98 every sample y is
\* below 0.98 in magnitude, has the sign of the accumulated value x it was
\* computed from, and is 0 exactly when x is 0.
C20_SoftLimiterBelowLimit ==
    hCall = "softClipInPlace" =>
        /\ Len(hClipped) = Len(hAcc)
        /\ \A i \in 1 .. Len(hAcc) :
               LET x == hAcc[i]
                   y == hClipped[i]
               IN  /\ BelowLimit(y)
                   /\ (y.num > 0) = (x.num > 0)
                   /\ (y.num < 0) = (x.num < 0)
                   /\ (y.num = 0) = (x.num = 0)

\* C20, amended: after the limiter with limit 0.98 every sample y is below
\* 0.98 in magnitude or, for an accumulated value x of magnitude 89515768
\* or more, is the float32 value nearest to 0.98 (0.98000001907...) in
\* magnitude; y has the sign of x and is 0 exactly when x is 0.
C20_SoftLimiterWithinFloat32Limit ==
    hCall = "softClipInPlace" =>
        /\ Len(hClipped) = Len(hAcc)
        /\ \A i \in 1 .. Len(hAcc) :
               LET x == hAcc[i]
                   y == hClipped[i]
               IN  /\ \/ BelowLimit(y)
                      \/ /\ Abs(y.num) = LimitAsFloat32.num
                         /\ y.den = LimitAsFloat32.den
                         /\ Abs(x.num) \div x.den >= RoundsUpFrom
                   /\ Abs(x.num) \div x.den < RoundsUpFrom => BelowLimit(y)
                   /\ (y.num > 0) = (x.num > 0)
                   /\ (y.num < 0) = (x.num < 0)
                   /\ (y.num = 0) = (x.num = 0)

\* the limiter was applied to silence and to a negative and a positive
\* value that the store rounds to the float32 limit
C20_Witness ==
    /\ hCall = "softClipInPlace"
    /\ \E i, j, k \in 1 .. Len(hAcc) :
          /\ hAcc[i].num = 0
          /\ hAcc[j].num <= -RoundsUpFrom
          /\ hAcc[k].num >= RoundsUpFrom

---------------------------------------------------------------------------
(* Claims about the frame that is added to the output *)

\* a frame has been written in the pass
WroteFrame == run.req # 0 /\ Len(run.frames) >= 1

\* C19: fitLength(x, len) returns exactly len samples: x when x has len
\* samples, the first len samples of x when x is longer, x followed by
\* zeros when x is shorter; so the frame proc that is added to the output
\* has chunkN samples, whatever rb.pitchShift returned (run.shifted).
C19_FitLengthGivesChunkLength ==
    WroteFrame =>
        LET x   == run.shifted
            len == run.chunkN
        IN  /\ Len(run.proc) = len
            /\ Len(x) = len => run.proc = x
            /\ Len(x) > len => run.proc = SubSeq(x, 1, len)
            /\ Len(x) < len =>
                   run.proc = x \o [i \in 1 .. len - Len(x) |-> 0]

\* rb.pitchShift returned a buffer that was a sample short and had a
\* non-zero sample
C19_Witness ==
    /\ WroteFrame
    /\ Len(run.shifted) = run.chunkN - 1
    /\ \E i \in 1 .. Len(run.shifted) : run.shifted[i] # 0

\* rb.pitchShift returned a buffer that was a sample long
C19_WitnessLonger ==
    /\ WroteFrame
    /\ Len(run.shifted) = run.chunkN + 1

---------------------------------------------------------------------------
(* detectPitch called on its own with frames of every length that has a    *)
(* window above                                                            *)

\* a frame of 50 samples that repeats the cycle c
Repeat(c) == [i \in 1 .. 50 |-> c[((i - 1) % Len(c)) + 1]]

\* the frames: every frame of up to 4 samples; of 50 samples, silence, a
\* constant, waves of period 2, 3, 4, 5, 7 and 13, a click, a wave that
\* stops halfway, and one period of a wave of period 50
PitchFrames ==
    UNION {[1 .. n -> BufSamples] : n \in 0 .. 4} \cup
    {Repeat(c) : c \in {<<0>>, <<1>>, <<1, -1>>, <<1, 0, -1>>,
                        <<1, 1, -1, -1>>, <<1, 1, 0, -1, -1>>,
                        <<1, 1, 1, 0, -1, -1, -1>>,
                        <<1, -1, 0, 1, 1, -1, 0, -1, 1, 0, 0, -1, 1>>}} \cup
    {[i \in 1 .. 50 |-> IF i = 25 THEN 1 ELSE 0],
     [i \in 1 .. 50 |-> IF i <= 25 THEN Repeat(<<1, 1, 0, -1, -1>>)[i] ELSE 0],
     [i \in 1 .. 50 |-> IF i <= 25 THEN 1 ELSE -1]}

\* the sample rates detectPitch is called with
PitchRates == {20, 1000, 2000}

InitPitch ==
    /\ hCall = "none"
    /\ hX \in PitchFrames
    /\ hSr \in PitchRates
    /\ hEst = <<>>
    /\ hStart = 0
    /\ hLen = 0
    /\ hOut = <<>>
    /\ hAfter = hX
    /\ hAcc = <<>>
    /\ hClipped = <<>>
    /\ IdleQuant /\ IdleRoot /\ IdlePlan /\ IdleWorker /\ IdlePage
    /\ IdleMain

\* detectPitch(x, sr)
CallDetectPitch ==
    /\ hCall = "none"
    /\ hEst' = Some(detectPitch(hX, hSr))
    /\ hCall' = "detectPitch"
    /\ UNCHANGED <<hX, hStart, hLen, hOut, hAfter, hAcc, hClipped, hSr>>
    /\ UNCHANGED <<quantVars, rootVars, planVars, workerVars, pageVars,
                   mainVars>>

NextPitch == CallDetectPitch

SpecPitch == InitPitch /\ [][NextPitch]_vars

\* C21: every estimate of detectPitch has a confidence in [0, 1] and a
\* frequency that is absent (0) or finite and in [80, 1000] Hz; an absent
\* frequency comes with a confidence of at most 0.1 (0, or a tenth of a
\* confidence in [0, 1]).
C21_EstimateWithinContract ==
    hCall = "detectPitch" =>
        LET f0         == hEst[1].f0
            confidence == hEst[1].confidence
        IN  /\ confidence.den > 0
            /\ confidence.num >= 0
            /\ confidence.num <= confidence.den
            /\ f0.den > 0
            /\ \/ f0 = Zero
               \/ /\ f0.num >= 80 * f0.den
                  /\ f0.num <= 1000 * f0.den
            /\ f0 = Zero => 10 * confidence.num <= confidence.den

\* a frequency outside the bounds was returned as absent, with a tenth of
\* its confidence
C21_Witness ==
    /\ hCall = "detectPitch"
    /\ hEst[1].f0 = Zero
    /\ hEst[1].confidence.num > 0

\* a frame of one sample, shorter than every lag
C21_WitnessShort ==
    /\ hCall = "detectPitch"
    /\ Len(hX) = 1
    /\ hX[1] # 0

\* a frequency inside the bounds was returned
C21_WitnessVoiced ==
    /\ hCall = "detectPitch"
    /\ hEst[1].f0 # Zero
    /\ hEst[1].confidence.num > 0

---------------------------------------------------------------------------
(* Claims about the key of a pass *)

\* no frame of the first loop has a pitch with a confidence of 0.4 or more:
\* pickRootMidi returns its default, 69
FellBackToDefaultRoot ==
    /\ run.req # 0
    /\ \A i \in 1 .. Len(run.pitches) :
           ~(FracGt(run.pitches[i], Zero) /\ FracGe(run.confs[i], Frac(2, 5)))

\* C22: in a pass in which pickRootMidi fell back to the default root,
\* every frame is shifted with ratio exactly 1.
C22_FallbackRootShiftsNothing ==
    FellBackToDefaultRoot =>
        \A k \in 1 .. Len(run.frames) :
            run.frames[k].ratio.num = run.frames[k].ratio.den

---------------------------------------------------------------------------
(* Claims about the key root of the analysis and of the plan *)

\* C23: the key root of the plan built from a recording equals the key
\* root that the analysis of the same recording, with the same sample rate
\* and settings, reported; both are null together.
C23_PlanKeyIsAnalysisKey ==
    pPlan # <<>> => pPlan[1].keyRootMidi = pAnalysis[1].keyRootMidi

---------------------------------------------------------------------------
(* Claims about a pass whose shift changes nothing *)

\* the second loop of the pass is over, rb.pitchShift returned its input
\* for every frame, and every frame had ratio 1
PassedThrough ==
    /\ run.req # 0
    /\ run.start >= Len(run.input)
    /\ Len(run.frames) = FrameCount(Len(run.input), run.hopN)
    /\ run.same
    /\ \A k \in 1 .. Len(run.frames) :
           run.frames[k].ratio.num = run.frames[k].ratio.den

\* C24: when rb.pitchShift returns every frame unchanged and every ratio
\* is 1, the output before the limiter equals the input at every index.
C24_PassThroughIsIdentity ==
    PassedThrough =>
        \A i \in 1 .. Len(run.input) :
            /\ run.out[i].den = 1
            /\ run.out[i].num = run.input[i]

---------------------------------------------------------------------------
(* The page of main.js: its four buttons, the awaits of startRecording and *)
(* stopRecording, processRecording, and the two handlers set by           *)
(* initWorker.  The worker.js that answers this page with 'processed' is   *)
(* not among the sources: the worker below answers each request with one  *)
(* message of a type the handler distinguishes, or with one error event.  *)

MaxTakes == 2

Disable(d, bs) == [b \in Buttons |-> IF b \in bs THEN TRUE ELSE d[b]]
Enable(d, bs) == [b \in Buttons |-> IF b \in bs THEN FALSE ELSE d[b]]

InitMain ==
    /\ MainLoaded
    /\ IdleQuant /\ IdleRoot /\ IdlePlan /\ IdleWorker /\ IdlePage
    /\ IdleFrame

\* startRecording up to "await getUserMedia" (lines 129-141)
ClickStart ==
    /\ ~disabled["btnStart"]
    /\ take < MaxTakes
    /\ mic' = "asking"
    /\ disabled' = Disable(disabled, {"btnStart"})
    /\ UNCHANGED <<take, mainRawBuffer, processedBuffer, worker,
                   pendingProcess, toWorker, toPage, playing, lastClick,
                   sincePost>>
    /\ UNCHANGED <<quantVars, rootVars, planVars, workerVars, pageVars,
                   frameVars>>

\* startRecording after the microphone was granted (lines 143-183)
MicGranted ==
    /\ mic = "asking"
    /\ mic' = "recording"
    /\ take' = take + 1
    /\ mainRawBuffer' = 0
    /\ processedBuffer' = 0
    /\ disabled' = Disable(Enable(disabled, {"btnStop"}),
                           {"btnPlayRaw", "btnProcess"})
    /\ UNCHANGED <<worker, pendingProcess, toWorker, toPage, playing,
                   lastClick, sincePost>>
    /\ UNCHANGED <<quantVars, rootVars, planVars, workerVars, pageVars,
                   frameVars>>

\* startRecording when getUserMedia rejects (lines 184-190)
MicDenied ==
    /\ mic = "asking"
    /\ mic' = "idle"
    /\ disabled' = Disable(Enable(disabled, {"btnStart"}), {"btnStop"})
    /\ UNCHANGED <<take, mainRawBuffer, processedBuffer, worker,
                   pendingProcess, toWorker, toPage, playing, lastClick,
                   sincePost>>
    /\ UNCHANGED <<quantVars, rootVars, planVars, workerVars, pageVars,
                   frameVars>>

\* stopRecording up to "await audioCtx.close()" (lines 193-206)
ClickStop ==
    /\ ~disabled["btnStop"]
    /\ mic' = "stopping"
    /\ disabled' = Disable(disabled, {"btnStop"})
    /\ UNCHANGED <<take, mainRawBuffer, processedBuffer, worker,
                   pendingProcess, toWorker, toPage, playing, lastClick,
                   sincePost>>
    /\ UNCHANGED <<quantVars, rootVars, planVars, workerVars, pageVars,
                   frameVars>>

\* stopRecording after the audio context closed (lines 208-235)
StopFinished ==
    /\ mic = "stopping"
    /\ mic' = "idle"
    /\ mainRawBuffer' = take
    /\ disabled' = Enable(disabled, {"btnPlayRaw", "btnProcess", "btnStart"})
    /\ UNCHANGED <<take, processedBuffer, worker, pendingProcess, toWorker,
                   toPage, playing, lastClick, sincePost>>
    /\ UNCHANGED <<quantVars, rootVars, planVars, workerVars, pageVars,
                   frameVars>>

\* playRawOrProcessed (lines 243-256)
ClickPlay ==
    /\ ~disabled["btnPlayRaw"]
    /\ LET buf == IF processedBuffer # 0 THEN processedBuffer
                  ELSE mainRawBuffer
       IN  playing' = IF buf = 0 THEN playing
                      ELSE [kind |-> IF processedBuffer # 0 THEN "processed"
                                     ELSE "raw",
                            take |-> buf]
    /\ UNCHANGED <<mic, take, mainRawBuffer, processedBuffer, worker,
                   pendingProcess, disabled, toWorker, toPage, lastClick,
                   sincePost>>
    /\ UNCHANGED <<quantVars, rootVars, planVars, workerVars, pageVars,
                   frameVars>>

\* a mutant of AlreadyPending: the second early return is never taken
NeverPending == FALSE

\* the second early return of processRecording (line 287)
AlreadyPending == pendingProcess

\* processRecording (lines 285-331), initWorker included
processRecording ==
    /\ ~disabled["btnProcess"]
    /\ IF mainRawBuffer = 0
       THEN /\ lastClick' = "noRecording"
            /\ UNCHANGED <<worker, pendingProcess, disabled, toWorker,
                           sincePost>>
       ELSE IF AlreadyPending
       THEN /\ lastClick' = "pending"
            /\ UNCHANGED <<worker, pendingProcess, disabled, toWorker,
                           sincePost>>
       ELSE /\ lastClick' = "posted"
            /\ worker' = TRUE
            /\ pendingProcess' = TRUE
            /\ disabled' = Disable(disabled, {"btnProcess", "btnPlayRaw"})
            /\ toWorker' = Append(toWorker, mainRawBuffer)
            /\ sincePost' = <<>>
    /\ UNCHANGED <<mic, take, mainRawBuffer, processedBuffer, toPage, playing>>
    /\ UNCHANGED <<quantVars, rootVars, planVars, workerVars, pageVars,
                   frameVars>>

\* the message types worker.onmessage distinguishes (lines 68, 73, 82), and
\* one it does not
ReplyTypes == {"log", "error", "processed", "result"}

\* the worker answers its oldest request with one message
WorkerReplies ==
    /\ toWorker # <<>>
    /\ \E t \in ReplyTypes, audio \in BOOLEAN :
           /\ audio => t = "processed"
           /\ toPage' = Append(toPage, [type |-> t,
                                        outBuffer |-> IF audio
                                                      THEN Head(toWorker)
                                                      ELSE 0])
    /\ toWorker' = Tail(toWorker)
    /\ UNCHANGED <<mic, take, mainRawBuffer, processedBuffer, worker,
                   pendingProcess, disabled, playing, lastClick, sincePost>>
    /\ UNCHANGED <<quantVars, rootVars, planVars, workerVars, pageVars,
                   frameVars>>

\* the worker fails with an uncaught error while it handles a request
WorkerCrashes ==
    /\ toWorker # <<>>
    /\ toPage' = Append(toPage, [type |-> "crash", outBuffer |-> 0])
    /\ toWorker' = Tail(toWorker)
    /\ UNCHANGED <<mic, take, mainRawBuffer, processedBuffer, worker,
                   pendingProcess, disabled, playing, lastClick, sincePost>>
    /\ UNCHANGED <<quantVars, rootVars, planVars, workerVars, pageVars,
                   frameVars>>

\* worker.onmessage of the page (lines 66-106)
MainOnMessage ==
    /\ toPage # <<>>
    /\ Head(toPage).type # "crash"
    /\ LET msg == Head(toPage)
       IN  CASE msg.type = "error" ->
                    /\ pendingProcess' = FALSE
                    /\ disabled' = Enable(disabled, {"btnProcess"})
                    /\ sincePost' = Append(sincePost, "error")
                    /\ UNCHANGED processedBuffer
             [] msg.type = "processed" /\ msg.outBuffer = 0 ->
                    /\ pendingProcess' = FALSE
                    /\ disabled' = Enable(disabled, {"btnProcess"})
                    /\ sincePost' = Append(sincePost, "processed")
                    /\ UNCHANGED processedBuffer
             [] msg.type = "processed" /\ msg.outBuffer # 0 ->
                    /\ pendingProcess' = FALSE
                    /\ processedBuffer' = msg.outBuffer
                    /\ disabled' = Enable(disabled,
                                          {"btnProcess", "btnPlayRaw"})
                    /\ sincePost' = Append(sincePost, "processed")
             [] OTHER ->
                    UNCHANGED <<pendingProcess, processedBuffer, disabled,
                                sincePost>>
    /\ toPage' = Tail(toPage)
    /\ UNCHANGED <<mic, take, mainRawBuffer, worker, toWorker, playing,
                   lastClick>>
    /\ UNCHANGED <<quantVars, rootVars, planVars, workerVars, pageVars,
                   frameVars>>

\* worker.onerror of the page (lines 111-116)
MainOnError ==
    /\ toPage # <<>>
    /\ Head(toPage).type = "crash"
    /\ pendingProcess' = FALSE
    /\ disabled' = Enable(disabled, {"btnProcess"})
    /\ sincePost' = Append(sincePost, "crash")
    /\ toPage' = Tail(toPage)
    /\ UNCHANGED <<mic, take, mainRawBuffer, processedBuffer, worker,
                   toWorker, playing, lastClick>>
    /\ UNCHANGED <<quantVars, rootVars, planVars, workerVars, pageVars,
                   frameVars>>

NextMain ==
    \/ ClickStart
    \/ MicGranted
    \/ MicDenied
    \/ ClickStop
    \/ StopFinished
    \/ ClickPlay
    \/ processRecording
    \/ WorkerReplies
    \/ WorkerCrashes
    \/ MainOnMessage
    \/ MainOnError

SpecMain == InitMain /\ [][NextMain]_vars

\* C25: whenever processedBuffer is set it was computed from the recording
\* held in rawBuffer, and the play button stays disabled while a recording
\* is in progress.
C25_ProcessedIsOfCurrentRecording ==
    /\ processedBuffer # 0 => processedBuffer = mainRawBuffer
    /\ mic = "recording" => disabled["btnPlayRaw"]

\* this step posts a 'process' request
PostsProcess == Len(toWorker') > Len(toWorker)

\* the requests posted and not yet answered by a handled reply or event
Outstanding == Len(toWorker) + Len(toPage)

\* C26: at most one 'process' request is outstanding; while pendingProcess
\* is true processRecording posts nothing; pendingProcess goes back to false
\* only in the handling of a 'processed' reply, an 'error' reply or a crash
\* of the worker; and a post that is not the first follows such an event.
C26_OneProcessOutstanding ==
    /\ [](Outstanding <= 1 /\ (Outstanding = 1 => pendingProcess))
    /\ [][/\ pendingProcess => ~PostsProcess
          /\ (pendingProcess /\ ~pendingProcess') =>
                 /\ toPage # <<>>
                 /\ Head(toPage).type \in {"processed", "error", "crash"}
                 /\ toPage' = Tail(toPage)
          /\ (PostsProcess /\ worker) =>
                 /\ sincePost # <<>>
                 /\ sincePost' = <<>>]_vars

\* the process button was clicked while a request was outstanding, and
\* nothing was posted
C26_Witness ==
    /\ lastClick = "pending"
    /\ pendingProcess
    /\ ~disabled["btnProcess"]
    /\ toWorker = <<mainRawBuffer - 1>>

\* the replies of type t among the messages of a sequence
CountType(msgs, t) == Cardinality({i \in 1 .. Len(msgs) : msgs[i].type = t})

\* the page has taken a 'ready' reply of the worker
ReadyReceived == CountType(posted, "ready") > CountType(outbox, "ready")

\* this step of the page of part_001 posts a 'process' message
PagePostsProcess ==
    /\ Len(inbox') > Len(inbox)
    /\ inbox'[Len(inbox')].type = "process"

\* this step ends the wait of a call without workerReady
WaitTimesOut == ~workerReady /\ polling' # polling /\ polling' \subseteq polling

\* C27: the page of part_001 posts 'process' only after it received 'ready';
\* a call whose wait ends without 'ready' posts nothing and re-enables the
\* process button, also when a second call is waiting at the same time.
C27_ProcessOnlyAfterReady ==
    [][/\ PagePostsProcess => ReadyReceived
       /\ WaitTimesOut => (~btnProcessDisabled' /\ inbox' = inbox
                              /\ asked' = asked)]_vars

\* after an 'error' reply re-enabled the button, a second click came during
\* the wait of the first; the wait of the first ended without 'ready', the
\* second call still waits, nothing was posted and the button is enabled
C27_Witness ==
    /\ clicks = 2
    /\ \E p \in polling : p.call = 2 /\ p.over = {1} /\ polling = {p}
    /\ ~workerReady
    /\ ~btnProcessDisabled
    /\ asked = {}
    /\ CountType(posted, "error") > 0

=============================================================================
